---- MODULE Spec2Model ----
(***************************************************************************)
(* Model of the task execution engine of codeagent-wrapper                 *)
(* (src/src/executor.mjs, signal.mjs): runTask, terminateProcess,          *)
(* forwardSignal, setupSignalHandlers, topologicalSort,                    *)
(* withConcurrencyLimit and runParallel.                                   *)
(*                                                                         *)
(* JavaScript runs every callback to completion and drains the queue of    *)
(* pending jobs (process.nextTick callbacks and promise reactions) before  *)
(* the event loop delivers the next event (timer, child exit, stream end,  *)
(* OS signal).  The model keeps that queue in the variable "jobs": the     *)
(* actions that deliver an event are enabled only when it is empty, and    *)
(* the actions that run a job take the head of the queue.                  *)
(***************************************************************************)
EXTENDS Integers, Sequences, FiniteSets, TLC

\* ---- bounds of the model ----
NumTasks == 3          \* tasks handed to runParallel
MaxWorkers == 2        \* largest maxWorkers option tried
MaxChildCode == 1      \* children exit by themselves with a code in 0..MaxChildCode
MaxSignals == 1        \* OS signals the wrapper process receives in one run
MaxEvents == 3         \* decoded events of one stream
MaxLines == 2          \* lines of the byte content of one stream
MaxCalls == 4          \* calls made on one Logger
MaxChunks == 3         \* 'data' events of the stderr of one child

Tasks == 1 .. NumTasks
ChildCodes == 0 .. MaxChildCode
Signals == {"SIGINT", "SIGTERM", "SIGHUP"}
Win32 == FALSE         \* process.platform === 'win32'

VARIABLES
  exec,       \* exec[t]: the state of the runTask invocation for task t and of its child
  jobs,       \* pending jobs of the JavaScript runtime, in the order they will run
  proc,       \* the wrapper process: "running", "uncaught" (uncaught exception), "killed"
  sigCount,   \* number of OS signals received so far
  lastSig,    \* the last OS signal received ("none" before the first)
  aborted,    \* the caller's AbortSignal has fired
  opts,       \* options of the call: parallel, hasSignal, timeout, maxWorkers
  deps,       \* deps[t]: the dependencies of task t
  tk,         \* tk[t]: the caller's task object t, as runParallel leaves it
  rp,         \* the state of runParallel
  pool,       \* the state of withConcurrencyLimit for the current layer
  sorted,     \* the outcome of a direct call of topologicalSort
  src,        \* the stdout stream parseJSONStream reads: its bytes and how many were delivered
  xf,         \* the JSONLineTransform: its buffer and the events it has pushed
  pj,         \* the locals of parseJSONStream and what it has handed to its callbacks
  lg,         \* a Logger, its sink and the calls made on it
  wr,         \* the wrapper process run by bin/codeagent-wrapper.mjs: main and its outcome
  se          \* the stderr of one child as runTask collects it

vars == <<exec, jobs, proc, sigCount, lastSig, aborted, opts, deps, tk, rp, pool,
          sorted, src, xf, pj, lg, wr, se>>
execVars == <<exec, jobs, proc, sigCount, lastSig, aborted, opts, rp, pool>>

\* ---- one runTask invocation and its child process ----

NoStatus == <<"none", 0>>

NewExec ==
  [ pc          |-> "idle",     \* idle, parsing, awaitExit, done, threw
    child       |-> "none",     \* none, spawnfail, running, exited
    status      |-> NoStatus,   \* <<"code", c>> or <<"signal", 0>> once the child has exited
    killed      |-> FALSE,      \* child.killed
    timedOut    |-> FALSE,
    interrupted |-> FALSE,
    timer       |-> "none",     \* none, armed, fired, cleared
    killTimers  |-> 0,          \* pending FORCE_KILL_DELAY timers
    delivered   |-> <<>>,       \* signals the child has received from child.kill()
    abortL      |-> FALSE,      \* abortHandler is registered on the external signal
    sigL        |-> "none",     \* the listener registered on process for the handled signals
    exitListen  |-> FALSE,      \* 'close' and 'error' listeners are attached to the child
    exitCode    |-> 0 ]         \* the exit code of the TaskResult, once pc = "done"

HasPid(e) == e.child \in {"running", "exited"}

\* child.kill(sig): delivers sig and sets child.killed when the process still runs
Kill(e, sig) ==
  IF e.child = "running"
    THEN [e EXCEPT !.killed = TRUE, !.delivered = Append(@, sig)]
    ELSE e

terminateProcess(e) ==
  IF e.child = "none" \/ e.killed \/ ~HasPid(e)
    THEN e
    ELSE [Kill(e, "SIGTERM") EXCEPT !.killTimers = @ + 1]

\* the callback of the FORCE_KILL_DELAY timer of terminateProcess
forceKill(e) ==
  LET f == [e EXCEPT !.killTimers = @ - 1]
  IN  IF ~f.killed THEN Kill(f, "SIGKILL") ELSE f

forwardSignal(e, sig) ==
  IF e.child = "none" \/ e.killed \/ ~HasPid(e)
    THEN e
    ELSE Kill(e, IF Win32 THEN "SIGTERM" ELSE sig)

\* the callback of the timeout timer of runTask
onTimeout(e) == terminateProcess([e EXCEPT !.timedOut = TRUE, !.timer = "fired"])

abortHandler(e) == terminateProcess([e EXCEPT !.interrupted = TRUE])

\* the callback runTask hands to setupSignalHandlers
onSignal(e, sig) == forwardSignal([e EXCEPT !.interrupted = TRUE], sig)

\* the signals setupSignalHandlers listens to
handledSignals == IF Win32 THEN {"SIGINT", "SIGTERM"} ELSE Signals

\* cleanup() of setupSignalHandlers: process.removeListener(signal, handler)
\* removes the listener only if "handler" is the function that was registered
cleanup(registered) == IF registered = "handler" THEN "none" ELSE registered

\* resolve(code ?? 1) of the 'close' listener
closeCode(status) == IF status[1] = "signal" THEN 1 ELSE status[2]

\* finalExitCode with the interrupt tested before the timeout
finalExitCodeInterruptFirst(timedOut, interrupted, exitCode) ==
  IF interrupted THEN 130
  ELSE IF timedOut THEN 124
  ELSE exitCode

finalExitCode(timedOut, interrupted, exitCode) ==
  IF timedOut THEN 124
  ELSE IF interrupted THEN 130
  ELSE exitCode

\* runTask from spawn() to the await of parseJSONStream
\* externalSignal: options.signal was given to this call
runTaskStart(e, spawnOk, externalSignal) ==
  [e EXCEPT !.pc = "parsing",
            !.child = IF spawnOk THEN "running" ELSE "spawnfail",
            !.timer = IF opts.timeout > 0 THEN "armed" ELSE "none",
            !.abortL = externalSignal,
            !.sigL = "wrapper"]

\* runTask from the end of parseJSONStream to the await of the exit promise
runTaskAwaitExit(e) == [e EXCEPT !.pc = "awaitExit", !.exitListen = TRUE]

\* runTask from the resolution of the exit promise to its return
runTaskFinish(e, code) ==
  [e EXCEPT !.pc = "done",
            !.timer = IF @ = "armed" THEN "cleared" ELSE @,
            !.sigL = cleanup(@),
            !.abortL = FALSE,
            !.exitCode = finalExitCode(e.timedOut, e.interrupted, code)]

\* ---- topologicalSort: Kahn's algorithm with layer snapshots ----
\* The task list is <<1, ..., Len(d)>> (a task's id is its position) and
\* d[t] is the dependencies array of task t.

\* the (dependency, dependent) pairs in the order the graph-building loop meets them
RECURSIVE edgesUpTo(_, _)
edgesUpTo(d, n) ==
  IF n = 0 THEN <<>>
  ELSE edgesUpTo(d, n - 1) \o [i \in 1 .. Len(d[n]) |-> <<d[n][i], n>>]

\* adjList with each dependent listed once, however often it names id
adjListDistinct(d, id) ==
  SelectSeq([t \in 1 .. Len(d) |-> t], LAMBDA t : \E i \in 1 .. Len(d[t]) : d[t][i] = id)

\* adjList with the dependents of id in the reverse of the push order
adjListReversed(d, id) ==
  LET es == SelectSeq(edgesUpTo(d, Len(d)), LAMBDA e : e[1] = id)
  IN  [i \in 1 .. Len(es) |-> es[Len(es) + 1 - i][2]]

\* adjList.get(id): the dependents of id, in push order
adjList(d, id) ==
  LET es == SelectSeq(edgesUpTo(d, Len(d)), LAMBDA e : e[1] = id)
  IN  [i \in 1 .. Len(es) |-> es[i][2]]

unknownDependency(d) ==
  \E t \in 1 .. Len(d) : \E i \in 1 .. Len(d[t]) : d[t][i] \notin 1 .. Len(d)

\* the loop over adjList.get(id): st = [queue, deg]
RECURSIVE relax(_, _, _)
relax(adj, k, st) ==
  IF k > Len(adj) THEN st
  ELSE LET dep == adj[k]
           nd  == st.deg[dep] - 1
       IN  relax(adj, k + 1,
                 [queue |-> IF nd = 0 THEN Append(st.queue, dep) ELSE st.queue,
                  deg   |-> [st.deg EXCEPT ![dep] = nd]])

\* the inner while loop: ids queue[head .. layerEnd] form one layer
RECURSIVE sortLayer(_, _, _, _)
sortLayer(d, head, layerEnd, st) ==
  IF head > layerEnd THEN st
  ELSE sortLayer(d, head + 1, layerEnd, relax(adjList(d, st.queue[head]), 1, st))

\* the outer loop without the snapshot of the queue end: every id that is
\* taken from the queue goes into the one layer
RECURSIVE sortLoopOneLayer(_, _, _, _)
sortLoopOneLayer(d, head, st, layers) ==
  IF head >= Len(st.queue) THEN [layers |-> layers, processed |-> head]
  ELSE sortLoopOneLayer(d, head + 1, sortLayer(d, head + 1, head + 1, st),
                        IF layers = <<>> THEN << <<st.queue[head + 1]>> >>
                        ELSE [layers EXCEPT ![1] = Append(@, st.queue[head + 1])])

\* the outer while loop; head is the number of ids already placed
RECURSIVE sortLoop(_, _, _, _)
sortLoop(d, head, st, layers) ==
  IF head >= Len(st.queue) THEN [layers |-> layers, processed |-> head]
  ELSE LET layerEnd == Len(st.queue)
           st2 == sortLayer(d, head + 1, layerEnd, st)
       IN  sortLoop(d, layerEnd, st2,
                    Append(layers, SubSeq(st.queue, head + 1, layerEnd)))

\* the error objects topologicalSort throws (error.exitCode = 2)
UnknownDependencyError ==
  [ok |-> FALSE, layers |-> <<>>, message |-> "Unknown dependency", exitCode |-> 2]
CircularDependencyError ==
  [ok |-> FALSE, layers |-> <<>>, message |-> "Circular dependency detected", exitCode |-> 2]

\* topologicalSort without the final test of processed
topologicalSortNoCycleCheck(d) ==
  IF unknownDependency(d) THEN UnknownDependencyError
  ELSE LET deg0 == [t \in 1 .. Len(d) |-> Len(d[t])]
           q0   == SelectSeq([t \in 1 .. Len(d) |-> t], LAMBDA t : deg0[t] = 0)
           r    == sortLoop(d, 0, [queue |-> q0, deg |-> deg0], <<>>)
       IN  [ok |-> TRUE, layers |-> r.layers, message |-> "", exitCode |-> 0]

\* ok = FALSE stands for a thrown error, ok = TRUE for the returned layers
topologicalSort(d) ==
  IF unknownDependency(d) THEN UnknownDependencyError
  ELSE LET deg0 == [t \in 1 .. Len(d) |-> Len(d[t])]
           q0   == SelectSeq([t \in 1 .. Len(d) |-> t], LAMBDA t : deg0[t] = 0)
           r    == sortLoop(d, 0, [queue |-> q0, deg |-> deg0], <<>>)
       IN  IF r.processed # Len(d)
             THEN CircularDependencyError
             ELSE [ok |-> TRUE, layers |-> r.layers, message |-> "", exitCode |-> 0]

\* ---- withConcurrencyLimit and runParallel ----

NewPool ==
  [ mode      |-> "none",    \* none, all (Promise.all(tasks.map(fn))), loop, gather, dead
    list      |-> <<>>,      \* runnableTasks
    added     |-> 0,         \* tasks of list the for loop has pushed to results
    executing |-> {},        \* the Set "executing"
    racing    |-> "no",      \* no, waiting (await Promise.race), settled
    settled   |-> [t \in Tasks |-> "pending"],  \* the promises of results: pending, ok, err
    gathered  |-> FALSE ]    \* the final Promise.all has settled

NewRp ==
  [ pc        |-> "idle",    \* idle, running, done, rejected
    layers    |-> <<>>,
    idx       |-> 0,         \* the layer being run (1-based)
    completed |-> {},        \* keys of completedTasks
    skipped   |-> {},        \* skippedTasks
    results   |-> <<>>,      \* allResults
    exitCode  |-> 0 ]        \* error.exitCode of the error it rejected with (0: none)

Job(kind, t) == <<kind, t>>

\* the error getAgentConfig and selectBackend throw for a name they do not
\* know (error.exitCode = 2)
UnknownNameError ==
  [name |-> "Error", isBase |-> FALSE, hasExitCode |-> TRUE, exitCode |-> 2]

\* dependencyFailed without the test of skippedTasks
dependencyFailedNoSkip(d, t, x, completed, skipped) ==
  \E i \in 1 .. Len(d[t]) :
     d[t][i] \in completed /\ x[d[t][i]].exitCode # 0

\* the test of the filter callback of runParallel for one task
dependencyFailed(d, t, x, completed, skipped) ==
  \E i \in 1 .. Len(d[t]) :
     \/ d[t][i] \in skipped
     \/ d[t][i] \in completed /\ x[d[t][i]].exitCode # 0

\* layer.filter(...): st = [skipped, runnable]
RECURSIVE filterLayer(_, _, _, _, _, _)
filterLayer(d, layer, k, x, completed, st) ==
  IF k > Len(layer) THEN st
  ELSE LET t == layer[k]
       IN  IF dependencyFailed(d, t, x, completed, st.skipped)
             THEN filterLayer(d, layer, k + 1, x, completed,
                      [st EXCEPT !.skipped = @ \cup {t}])
             ELSE filterLayer(d, layer, k + 1, x, completed,
                      [st EXCEPT !.runnable = Append(@, t)])

\* poolFull with > in place of >=
poolFullOffByOne(size, limit) == size > limit

\* if (executing.size >= limit) await Promise.race(executing)
poolFull(size, limit) == size >= limit

\* if (limit <= 0 || limit >= tasks.length) return Promise.all(tasks.map(fn))
unlimited(limit, n) == limit <= 0 \/ limit >= n

\* promiseAll resolving as soon as one promise is fulfilled (Promise.any)
promiseAny(r) ==
  LET p == r.pool
      ids == {p.list[i] : i \in 1 .. Len(p.list)}
  IN  IF p.gathered THEN r
      ELSE IF \E t \in ids : p.settled[t] = "err"
        THEN [r EXCEPT !.pool.gathered = TRUE, !.pool.mode = "dead",
                       !.rp.pc = "rejected", !.rp.exitCode = UnknownNameError.exitCode]
      ELSE IF ids = {} \/ \E t \in ids : p.settled[t] = "ok"
        THEN [r EXCEPT !.pool.gathered = TRUE,
                       !.jobs = Append(@, Job("layerdone", 0))]
      ELSE r

\* Promise.all over the promises of p.list: r = [rp, pool, jobs]
promiseAll(r) ==
  LET p == r.pool
      ids == {p.list[i] : i \in 1 .. Len(p.list)}
  IN  IF p.gathered THEN r
      ELSE IF \E t \in ids : p.settled[t] = "err"
        THEN [r EXCEPT !.pool.gathered = TRUE, !.pool.mode = "dead",
                       !.rp.pc = "rejected", !.rp.exitCode = UnknownNameError.exitCode]
      ELSE IF \A t \in ids : p.settled[t] = "ok"
        THEN [r EXCEPT !.pool.gathered = TRUE,
                       !.jobs = Append(@, Job("layerdone", 0))]
      ELSE r

\* the for loop of withConcurrencyLimit, from its current position to its
\* next await
RECURSIVE forLoop(_)
forLoop(r) ==
  LET p == r.pool
  IN  IF p.added = Len(p.list)
        THEN promiseAll([r EXCEPT !.pool.mode = "gather", !.pool.racing = "no"])
        ELSE LET t  == p.list[p.added + 1]
                 r2 == [r EXCEPT !.pool.added = @ + 1,
                                 !.pool.executing = @ \cup {t},
                                 !.pool.racing = "no",
                                 !.jobs = Append(@, Job("fn", t))]
             IN  IF poolFull(Cardinality(r2.pool.executing), opts.maxWorkers)
                   THEN [r2 EXCEPT !.pool.racing = "waiting"]
                   ELSE forLoop(r2)

RECURSIVE fnJobs(_, _)
fnJobs(list, k) ==
  IF k > Len(list) THEN <<>> ELSE <<Job("fn", list[k])>> \o fnJobs(list, k + 1)

withConcurrencyLimit(r, list) ==
  LET r0 == [r EXCEPT !.pool = [NewPool EXCEPT !.list = list]]
  IN  IF unlimited(opts.maxWorkers, Len(list))
        THEN promiseAll([r0 EXCEPT !.pool.mode = "all",
                                   !.jobs = @ \o fnJobs(list, 1)])
        ELSE forLoop([r0 EXCEPT !.pool.mode = "loop"])

\* one iteration of the loop over the layers, up to the await
startLayer(r, x) ==
  LET layer == r.rp.layers[r.rp.idx]
      f == filterLayer(deps, layer, 1, x, r.rp.completed,
                       [skipped |-> r.rp.skipped, runnable |-> <<>>])
  IN  withConcurrencyLimit([r EXCEPT !.rp.skipped = f.skipped], f.runnable)

\* "Record results" and "Add skipped task results" for the layer
RECURSIVE recordResults(_, _, _, _)
recordResults(rpv, list, k, x) ==
  IF k > Len(list) THEN rpv
  ELSE recordResults(
         [rpv EXCEPT !.completed = @ \cup {list[k]},
                     !.results = Append(@, [taskId |-> list[k],
                                            exitCode |-> x[list[k]].exitCode,
                                            skipped |-> FALSE])],
         list, k + 1, x)

\* runParallel without the loop that adds the results of the skipped tasks
recordSkippedNone(rpv, layer, k) == rpv

RECURSIVE recordSkipped(_, _, _)
recordSkipped(rpv, layer, k) ==
  IF k > Len(layer) THEN rpv
  ELSE recordSkipped(
         IF layer[k] \in rpv.skipped /\ layer[k] \notin rpv.completed
           THEN [rpv EXCEPT !.results = Append(@, [taskId |-> layer[k],
                                                   exitCode |-> 1,
                                                   skipped |-> TRUE])]
           ELSE rpv,
         layer, k + 1)

\* the promise of fn(task) has settled with outcome o ("ok" or "err")
fnSettled(r, t, o) ==
  IF r.pool.mode \in {"loop", "gather"} \/ (r.pool.mode = "dead" /\ t \in r.pool.executing)
    THEN [r EXCEPT !.jobs = Append(@, Job("finally", t))]
  ELSE IF r.pool.mode = "all"
    THEN promiseAll([r EXCEPT !.pool.settled[t] = o])
  ELSE r

\* ---- main and the entry point bin/codeagent-wrapper.mjs ----

\* an Error object: isBase is "error instanceof BaseError", hasExitCode is
\* "error.exitCode !== undefined"
NoError == [name |-> "none", isBase |-> FALSE, hasExitCode |-> FALSE, exitCode |-> 0]

\* new BaseError(message, code, category, suggestion, context) and its
\* subclasses: the constructor sets no exitCode
BaseError(name) == [name |-> name, isBase |-> TRUE, hasExitCode |-> FALSE, exitCode |-> 0]

\* const error = new Error(message); error.exitCode = code
ExitCodeError(code) == [name |-> "Error", isBase |-> FALSE, hasExitCode |-> TRUE, exitCode |-> code]

\* A name (session id, agent) is the sequence of its characters; a path is
\* what the file system holds under it: "" (no path given), "missing",
\* "unreadable" (a file without read permission), "file" or "dir".
NameChars == {"a", "1", "_", "-"}      \* [a-zA-Z0-9_-]
matchesName(s) == Len(s) > 0 /\ \A i \in 1 .. Len(s) : s[i] \in NameChars

isValidSessionId(sessionId) == sessionId # <<>> /\ matchesName(sessionId)

\* validateFilePath(filePath, { mustExist: true, mustBeDirectory, mustBeReadable })
validateFilePath(filePath, mustBeDirectory, mustBeReadable) ==
  IF filePath = "missing" THEN BaseError("FileNotFoundError")
  ELSE IF mustBeDirectory /\ filePath # "dir" THEN BaseError("InvalidFilePathError")
  ELSE IF mustBeReadable /\ filePath = "unreadable" THEN BaseError("PermissionDeniedError")
  ELSE NoError

backends == {"codex", "claude", "gemini", "opencode"}
Installed == {"codex"}                 \* the backends whose command is on the PATH
\* the agents of the models configuration: a default one, and one that
\* ~/.codeagent/models.json defines with a reasoningEffort
Agents == {<<"o", "r">>, <<"a", "1">>}
agentReasoningEffort(name) == IF name = <<"a", "1">> THEN "high" ELSE ""

selectBackend(name) == IF name \in backends THEN NoError ELSE UnknownNameError

getAgentConfig(name) == IF name \in Agents THEN NoError ELSE UnknownNameError

\* a task object of the list given to runParallel
PlainTask == [agent |-> <<>>, backend |-> "", model |-> "", reasoningEffort |-> ""]

\* what the task body of runParallel leaves in the caller's task object once
\* getAgentConfig(task.agent) has returned: backend and model go into locals,
\* the reasoning effort of the preset into task.reasoningEffort
resolveAgent(task) ==
  IF task.agent # <<>> /\ task.reasoningEffort = "" /\ agentReasoningEffort(task.agent) # ""
    THEN [task EXCEPT !.reasoningEffort = agentReasoningEffort(task.agent)]
    ELSE task

validateBackendAvailability(backend) ==
  IF selectBackend(backend) # NoError THEN selectBackend(backend)
  ELSE IF backend \notin Installed THEN BaseError("BackendNotFoundError")
  ELSE NoError

\* validateConfig(config): the error it throws, NoError when it returns
validateConfig(config) ==
  IF config.timeout <= 0 \/ config.timeout > 86400
    THEN BaseError("InvalidParameterError")
  ELSE IF config.maxParallelWorkers < 0 \/ config.maxParallelWorkers > 1000
    THEN BaseError("InvalidParameterError")
  ELSE IF config.mode = "new" /\ config.task = "" /\ ~config.explicitStdin /\ ~config.parallel
    THEN BaseError("MissingParameterError")
  ELSE IF config.mode = "resume" /\ config.sessionId = <<>>
    THEN BaseError("MissingParameterError")
  ELSE IF config.mode = "resume" /\ ~isValidSessionId(config.sessionId)
    THEN BaseError("SessionValidationError")
  ELSE IF config.promptFile # "" /\ validateFilePath(config.promptFile, FALSE, TRUE) # NoError
    THEN validateFilePath(config.promptFile, FALSE, TRUE)
  ELSE IF config.workDir \notin {"", "-"} /\ validateFilePath(config.workDir, TRUE, FALSE) # NoError
    THEN validateFilePath(config.workDir, TRUE, FALSE)
  ELSE IF config.agent # <<>> /\ ~matchesName(config.agent)
    THEN BaseError("InvalidParameterError")
  ELSE IF config.backend # "" /\ ~config.parallel
    THEN validateBackendAvailability(config.backend)
  ELSE NoError

\* the .catch callback of the entry point: the value it gives process.exitCode
\* (error.exitCode || 1 for a BaseError)
onMainRejected(error) ==
  IF error.isBase
    THEN IF error.hasExitCode /\ error.exitCode # 0 THEN error.exitCode ELSE 1
  ELSE IF error.hasExitCode THEN error.exitCode
  ELSE 1

\* results.filter(r => r.exitCode !== 0) with === in place of !==
failedZero(results) == SelectSeq(results, LAMBDA r : r.exitCode = 0)

\* const failed = results.filter(r => r.exitCode !== 0)
failed(results) == SelectSeq(results, LAMBDA r : r.exitCode # 0)

\* what main throws after runParallel has returned its results
mainParallelOutcome(results) ==
  IF Len(failed(results)) > 0 THEN ExitCodeError(1) ELSE NoError

\* what main throws after runTask has returned its result
mainSingleOutcome(exitCode) ==
  IF exitCode # 0 THEN ExitCodeError(exitCode) ELSE NoError

DefaultConfig ==
  [ parallel |-> FALSE, mode |-> "new", task |-> "", explicitStdin |-> FALSE,
    sessionId |-> <<>>, promptFile |-> "", workDir |-> "", agent |-> <<>>,
    backend |-> "", timeout |-> 7200, maxParallelWorkers |-> 0 ]

NewWrapper ==
  [ pc       |-> "lib",      \* lib (main is not running: the caller uses the library),
                             \* start, input, validated, single, parallel, exited
    config   |-> DefaultConfig,
    error    |-> NoError,    \* the error main rejected with
    failedAt |-> "none",     \* the call of main that threw it
    exitCode |-> 0 ]         \* process.exitCode

\* main has settled: with an error the promise rejects and the .catch
\* callback of the entry point runs
mainSettled(w, error, at) ==
  [w EXCEPT !.pc = "exited",
            !.error = error,
            !.failedAt = IF error = NoError THEN "none" ELSE at,
            !.exitCode = IF error = NoError THEN w.exitCode ELSE onMainRejected(error)]

\* ---- the stderr of the child in runTask ----

STDERR_BUFFER_SIZE == 2

\* Bytes are tokens: "a" (0x61), "L" and "C" (0xC3 0xA9, the two bytes of
\* U+00E9) and "BEL" (0x07); a string is the sequence of its characters.
NewStderr ==
  [ buffers  |-> <<>>,       \* stderrBuffers: the chunks kept
    size     |-> 0,          \* stderrSize
    written  |-> <<>>,       \* every byte the child has written to stderr
    chunks   |-> 0,          \* 'data' events so far
    returned |-> FALSE,      \* runTask has built its TaskResult
    tail     |-> <<>>,       \* the bytes stderrBuffer was decoded from
    exitCode |-> 0,          \* exitCode of the TaskResult
    error    |-> <<>> ]      \* error of the TaskResult

\* while (stderrSize > STDERR_BUFFER_SIZE * 2 && stderrBuffers.length > 1)
\*   stderrSize -= stderrBuffers.shift().length
RECURSIVE evict(_)
evict(s) ==
  IF s.size > STDERR_BUFFER_SIZE * 2 /\ Len(s.buffers) > 1
    THEN evict([s EXCEPT !.size = @ - Len(Head(s.buffers)), !.buffers = Tail(@)])
    ELSE s

\* the 'data' handler of child.stderr
onStderrData(s, data) ==
  evict([s EXCEPT !.buffers = Append(@, data),
                  !.size = @ + Len(data),
                  !.written = @ \o data,
                  !.chunks = @ + 1])

\* Buffer.concat(list)
RECURSIVE BufferConcat(_)
BufferConcat(list) ==
  IF list = <<>> THEN <<>> ELSE Head(list) \o BufferConcat(Tail(list))

\* the whole buffer: the slice left out
sliceNone(buf, n) == buf

\* buf.slice(-n) for n > 0: the last n bytes, all of them when there are fewer
sliceLast(buf, n) ==
  IF Len(buf) <= n THEN buf ELSE SubSeq(buf, Len(buf) - n + 1, Len(buf))

\* buf.toString(): UTF-8 decoding in which a byte that is not part of a
\* complete character becomes U+FFFD
RECURSIVE toString(_)
toString(buf) ==
  IF buf = <<>> THEN <<>>
  ELSE IF buf[1] = "a" THEN <<"U+0061">> \o toString(Tail(buf))
  ELSE IF buf[1] = "BEL" THEN <<"U+0007">> \o toString(Tail(buf))
  ELSE IF buf[1] = "L" /\ Len(buf) >= 2 /\ buf[2] = "C"
    THEN <<"U+00E9">> \o toString(Tail(Tail(buf)))
  ELSE <<"U+FFFD">> \o toString(Tail(buf))

\* sanitizeOutput(text): escape sequences and control characters removed
sanitizeOutput(text) == SelectSeq(text, LAMBDA ch : ch # "U+0007")

\* the end of runTask: stderrBuffer and the error field of the TaskResult
stderrResult(s, finalCode) ==
  LET tail == IF Len(s.buffers) > 0
                THEN sliceLast(BufferConcat(s.buffers), STDERR_BUFFER_SIZE)
                ELSE <<>>
  IN  [s EXCEPT !.returned = TRUE,
                !.tail = tail,
                !.exitCode = finalCode,
                !.error = IF finalCode # 0 THEN sanitizeOutput(toString(tail)) ELSE <<>>]

\* ---- the state machine ----

\* ---- parser: the events and their interpretation ----

MAX_MESSAGE_SIZE == 10 * 1024 * 1024

\* a JSON value found where message text is looked for: kind "absent" is
\* undefined or the empty string (falsy), "str" a string of `length` UTF-16
\* units, "arr" an array of `length` elements that Array.prototype.join turns
\* into `joined` units, "obj" an object or number (its .length is undefined)
Absent == [kind |-> "absent", length |-> 0, joined |-> 0]
Str(n) == [kind |-> "str", length |-> n, joined |-> n]
Arr(n) == [kind |-> "arr", length |-> 1, joined |-> n]   \* [ "<n units>" ]
Obj == [kind |-> "obj", length |-> 0, joined |-> 0]
truthy(v) == v.kind # "absent"

\* the first truthy value of a || b || c
or3(a, b, c) == IF truthy(a) THEN a ELSE IF truthy(b) THEN b ELSE c
orId(a, b, c) == IF a # "" THEN a ELSE IF b # "" THEN b ELSE c

NoItem == [kind |-> "absent", type |-> "", content |-> Absent, text |-> Absent,
           output |-> Absent]

\* a decoded event without any of the fields the parser looks at; a string
\* field that is "" is absent; item and part are objects or absent;
\* item.output is item.aggregated_output, part.output is part.state.output
NoEvent ==
  [ type |-> "", thread_id |-> "", session_id |-> "", sessionId |-> "",
    sessionID |-> "", subtype |-> "", role |-> "", delta |-> "undefined",
    result |-> Absent, content |-> Absent, text |-> Absent, message |-> Absent,
    stdout |-> Absent,      \* tool_use_result.stdout
    output |-> Absent, item |-> NoItem, part |-> NoItem ]

detectBackend(event) ==
  IF event.thread_id # "" \/ (event.item.kind # "absent" /\ event.item.type # "")
    THEN "codex"
  ELSE IF event.subtype # "" \/ truthy(event.result)
          \/ (event.type = "result" /\ event.session_id # "")
    THEN "claude"
  ELSE IF event.role # "" \/ event.delta # "undefined"
          \/ (event.type = "init" /\ event.session_id # "")
    THEN "gemini"
  ELSE IF event.sessionID # "" /\ event.part.kind # "absent"
    THEN "opencode"
  ELSE "unknown"

extractMessage(event, backendType) ==
  CASE backendType = "codex" ->
         IF event.item.kind = "absent" THEN Absent
         ELSE IF truthy(event.item.content) THEN event.item.content
         ELSE IF truthy(event.item.text) THEN event.item.text
         ELSE IF event.item.type = "command_execution" /\ truthy(event.item.output)
           THEN event.item.output
         ELSE Absent
    [] backendType = "claude" -> or3(event.result, event.content, event.stdout)
    [] backendType = "gemini" ->
         IF truthy(event.content) THEN event.content
         ELSE IF event.type = "tool_result" /\ truthy(event.output) THEN event.output
         ELSE Absent
    [] backendType = "opencode" ->
         IF event.part.kind = "absent" THEN Absent
         ELSE IF truthy(event.part.text) THEN event.part.text
         ELSE IF truthy(event.part.content) THEN event.part.content
         ELSE IF event.part.type = "tool" /\ truthy(event.part.output)
           THEN event.part.output
         ELSE Absent
    [] OTHER -> or3(event.content, event.text, event.message)

extractSessionId(event, backendType) ==
  CASE backendType = "codex" -> event.thread_id
    [] backendType = "claude" -> event.session_id
    [] backendType = "gemini" -> event.session_id
    [] backendType = "opencode" -> event.sessionID
    [] OTHER -> orId(event.session_id, event.sessionId, event.thread_id)

\* ---- parser: parseJSONStream ----

\* the locals of parseJSONStream; seen, onEvent, onMessage and dropped record
\* what it consumed, what it passed to its callbacks and whether a fragment
\* with a length was left out because it did not fit
NewParse ==
  [ pc              |-> "idle",     \* idle, loop (for await), returned
    messages        |-> <<>>,
    messagesSize    |-> 0,
    sessionId       |-> "",
    detectedBackend |-> "unknown",
    cachedBackend   |-> "null",
    seen            |-> <<>>,
    onEvent         |-> <<>>,
    onMessage       |-> <<>>,
    dropped         |-> FALSE ]

\* the flavor step with detection repeated for every event
flavorPerEvent(p, event) ==
  [p EXCEPT !.detectedBackend = detectBackend(event)]

\* the first statement of the loop body: the flavor this event is read under
flavor(p, event) ==
  IF p.cachedBackend # "null"
    THEN [p EXCEPT !.detectedBackend = p.cachedBackend]
  ELSE IF p.detectedBackend = "unknown"
    THEN LET b == detectBackend(event)
         IN  [p EXCEPT !.detectedBackend = b,
                       !.cachedBackend = IF b # "unknown" THEN b ELSE "null"]
  ELSE p

\* messagesSize + message.length <= MAX_MESSAGE_SIZE (false for NaN)
withinLimit(p, message) ==
  message.kind # "obj" /\ p.messagesSize + message.length <= MAX_MESSAGE_SIZE

\* the message part of the loop body
collectMessage(p, message) ==
  IF ~truthy(message) THEN p
  ELSE LET p1 == IF withinLimit(p, message)
                   THEN [p EXCEPT !.messages = Append(@, message),
                                  !.messagesSize = @ + message.length]
                   ELSE [p EXCEPT !.dropped = @ \/ message.kind # "obj"]
       IN  [p1 EXCEPT !.onMessage = Append(@, message)]

\* the session id part with every non-empty id taken
collectSessionIdLast(p, eventSessionId) ==
  IF eventSessionId # "" THEN [p EXCEPT !.sessionId = eventSessionId] ELSE p

\* the session id part of the loop body
collectSessionId(p, eventSessionId) ==
  IF eventSessionId # "" /\ p.sessionId = ""
    THEN [p EXCEPT !.sessionId = eventSessionId]
    ELSE p

\* one iteration of the for await loop
processEvent(p, event) ==
  LET p1 == flavor(p, event)
      p2 == [p1 EXCEPT !.seen = Append(@, event),
                       !.onEvent = Append(@, p1.detectedBackend)]
      p3 == collectMessage(p2, extractMessage(event, p2.detectedBackend))
  IN  collectSessionId(p3, extractSessionId(event, p3.detectedBackend))

RECURSIVE joinedLength(_)
joinedLength(messages) ==
  IF messages = <<>> THEN 0
  ELSE Head(messages).joined + joinedLength(Tail(messages))

\* the object parseJSONStream returns; message is given by its length
parseResult(p) ==
  [ message     |-> joinedLength(p.messages),
    sessionId   |-> p.sessionId,
    backendType |-> p.detectedBackend ]

\* ---- parser: JSONLineTransform ----

\* bytes are tokens: LF, SP (any other whitespace), the braces and brackets,
\* and e1, e2, each standing for the body of one JSON object
NewTransform ==
  [ buffer  |-> <<>>,
    out     |-> <<>>,       \* events pushed and not yet read by the loop
    flushed |-> FALSE ]     \* _flush has run (the source ended)

\* cut records that a chunk ended inside a line
NoSource == [content |-> <<>>, pos |-> 0, cut |-> FALSE]

isWhitespace(byte) == byte \in {"SP", "TAB", "LF", "CR"}

\* index of the first non-whitespace byte, 0 for -1
RECURSIVE findFirstNonWhitespace(_, _)
findFirstNonWhitespace(buf, start) ==
  IF start > Len(buf) THEN 0
  ELSE IF ~isWhitespace(buf[start]) THEN start
  ELSE findFirstNonWhitespace(buf, start + 1)

\* the events of the streams explored
Unclassified == [NoEvent EXCEPT !.type = "x"]
Plain == [NoEvent EXCEPT !.content = Str(1), !.session_id = "s0"]
Codex ==
  [NoEvent EXCEPT !.thread_id = "t1", !.session_id = "s1", !.content = Str(2),
                  !.item = [NoItem EXCEPT !.kind = "object", !.type = "agent_message",
                                          !.text = Str(1)]]
Claude ==
  [NoEvent EXCEPT !.type = "result", !.subtype = "success", !.session_id = "s2",
                  !.result = Str(MAX_MESSAGE_SIZE - 1)]
Gemini(v) == [NoEvent EXCEPT !.role = "assistant", !.content = v]
Opencode ==
  [NoEvent EXCEPT !.sessionID = "s3",
                  !.part = [NoItem EXCEPT !.kind = "object", !.type = "text",
                                          !.text = Str(1)]]

EventOf(token) == IF token = "e1" THEN Codex ELSE Plain

\* JSON.parse of the bytes of a line from its first non-whitespace byte on:
\* {e1}, {e2}, {} and [] are JSON texts, also when whitespace follows
JSONparse(line) ==
  LET blankFrom(k) == \A i \in k .. Len(line) : isWhitespace(line[i])
  IN  IF Len(line) >= 3 /\ line[1] = "{" /\ line[2] \in {"e1", "e2"}
         /\ line[3] = "}" /\ blankFrom(4)
        THEN [ok |-> TRUE, event |-> EventOf(line[2])]
      ELSE IF Len(line) >= 2 /\ blankFrom(3)
              /\ (<<line[1], line[2]>> = <<"{", "}">> \/ <<line[1], line[2]>> = <<"[", "]">>)
        THEN [ok |-> TRUE, event |-> NoEvent]
      ELSE [ok |-> FALSE, event |-> NoEvent]

\* what one line makes the transform push: nothing for a blank line, for a
\* line that does not start with { or [, and for invalid JSON
decodeLine(lineBuffer) ==
  LET firstNonWs == findFirstNonWhitespace(lineBuffer, 1)
  IN  IF firstNonWs = 0 THEN <<>>
      ELSE IF lineBuffer[firstNonWs] \notin {"{", "["} THEN <<>>
      ELSE LET r == JSONparse(SubSeq(lineBuffer, firstNonWs, Len(lineBuffer)))
           IN  IF r.ok THEN <<r.event>> ELSE <<>>

\* the for loop of _transform over this.buffer
RECURSIVE scanLines(_, _, _, _)
scanLines(buffer, i, start, out) ==
  IF i > Len(buffer) THEN [out |-> out, rest |-> SubSeq(buffer, start, Len(buffer))]
  ELSE IF buffer[i] = "LF"
    THEN scanLines(buffer, i + 1, i + 1, out \o decodeLine(SubSeq(buffer, start, i - 1)))
  ELSE scanLines(buffer, i + 1, start, out)

\* _transform scanning the chunk alone and keeping no incomplete line
JSONLineTransform_transformNoBuffer(x, chunk) ==
  LET r == scanLines(chunk, 1, 1, <<>>)
  IN  [x EXCEPT !.buffer = <<>>, !.out = @ \o r.out]

\* JSONLineTransform._transform(chunk)
JSONLineTransform_transform(x, chunk) ==
  LET r == scanLines(x.buffer \o chunk, 1, 1, <<>>)
  IN  [x EXCEPT !.buffer = r.rest, !.out = @ \o r.out]

\* JSONLineTransform._flush()
JSONLineTransform_flush(x) ==
  [x EXCEPT !.out = @ \o decodeLine(x.buffer), !.flushed = TRUE]

\* ---- logger ----

MAX_ERROR_ENTRIES == 100
QUEUE_SIZE == 2            \* CODEAGENT_LOGGER_QUEUE_SIZE=2 (100 when unset)

\* a Logger after its constructor, its write stream (buffered: the batches
\* handed to write() whose callback has not run; written: the entries whose
\* write completed) and the promise of close(); calls, lastCall, submitted,
\* heldBack (an entry was queued while a drain was pending) and timedOut (the
\* close timeout has fired) record what happened to it
NewLogger ==
  [ closed        |-> FALSE,
    queue         |-> <<>>,
    errorEntries  |-> <<>>,
    flushTimer    |-> TRUE,
    pendingWrites |-> 0,
    drainPending  |-> FALSE,
    buffered      |-> <<>>,
    written       |-> <<>>,
    needDrain     |-> FALSE,   \* the stream owes a 'drain' event
    ends          |-> 0,       \* calls of stream.end()
    closing       |-> "none",  \* the promise of close(): none, waiting, resolved
    closeTimer    |-> FALSE,   \* the CLOSE_TIMEOUT_MS timer is armed
    pollTimer     |-> FALSE,   \* a setTimeout(checkPending, 50) is armed
    calls         |-> 0,
    lastCall      |-> "none",
    submitted     |-> <<>>,
    heldBack      |-> FALSE,
    timedOut      |-> FALSE ]

Levels == {"info", "warn", "error", "debug"}

\* the last n elements of q: q.slice(-n)
lastN(q, n) == IF Len(q) <= n THEN q ELSE SubSeq(q, Len(q) - n + 1, Len(q))

\* #flush emptying the queue before it looks at the drain flag
flushBeforeDrainTest(l, canWrite) ==
  IF l.queue = <<>> THEN l
  ELSE IF l.drainPending THEN [l EXCEPT !.queue = <<>>]
  ELSE [l EXCEPT !.queue = <<>>,
                 !.pendingWrites = @ + 1,
                 !.buffered = Append(@, l.queue),
                 !.needDrain = @ \/ ~canWrite,
                 !.drainPending = ~canWrite]

\* #flush without the test of the drain flag
flushIgnoringDrain(l, canWrite) ==
  IF l.queue = <<>> THEN l
  ELSE [l EXCEPT !.queue = <<>>,
                 !.pendingWrites = @ + 1,
                 !.buffered = Append(@, l.queue),
                 !.needDrain = @ \/ ~canWrite,
                 !.drainPending = ~canWrite]

\* Logger.#flush; canWrite is what stream.write returns (this.#stream is never null)
flush(l, canWrite) ==
  IF l.queue = <<>> \/ l.drainPending THEN l
  ELSE [l EXCEPT !.queue = <<>>,
                 !.pendingWrites = @ + 1,
                 !.buffered = Append(@, l.queue),
                 !.needDrain = @ \/ ~canWrite,
                 !.drainPending = ~canWrite]

\* #log flushing only when the queue is full
logNoSmartFlush(l, entry, canWrite) ==
  IF l.closed THEN l
  ELSE LET l1 == [l EXCEPT !.queue = Append(@, entry)]
           l2 == IF entry.level \in {"error", "warn"}
                   THEN [l1 EXCEPT !.errorEntries = Append(@, entry)]
                   ELSE l1
       IN  IF Len(l2.queue) >= QUEUE_SIZE THEN flush(l2, canWrite) ELSE l2

\* #log without the test of #closed
logWhenClosed(l, entry, canWrite) ==
  LET l1 == [l EXCEPT !.queue = Append(@, entry)]
  IN  IF entry.level \in {"error", "warn"}
        THEN flush([l1 EXCEPT !.errorEntries = Append(@, entry)], canWrite)
      ELSE IF Len(l1.queue) >= QUEUE_SIZE THEN flush(l1, canWrite)
      ELSE l1

\* #log without the trimming of the retained entries
logNoTrim(l, entry, canWrite) ==
  IF l.closed THEN l
  ELSE LET l1 == [l EXCEPT !.queue = Append(@, entry)]
       IN  IF entry.level \in {"error", "warn"}
             THEN flush([l1 EXCEPT !.errorEntries = Append(@, entry)], canWrite)
           ELSE IF Len(l1.queue) >= QUEUE_SIZE THEN flush(l1, canWrite)
           ELSE l1

\* Logger.#log(level, message)
log(l, entry, canWrite) ==
  IF l.closed THEN l
  ELSE LET l1 == [l EXCEPT !.queue = Append(@, entry)]
       IN  IF entry.level \in {"error", "warn"}
             THEN LET e1 == Append(l1.errorEntries, entry)
                      e2 == IF Len(e1) > MAX_ERROR_ENTRIES * 2
                              THEN lastN(e1, MAX_ERROR_ENTRIES) ELSE e1
                  IN  flush([l1 EXCEPT !.errorEntries = e2], canWrite)
           ELSE IF Len(l1.queue) >= QUEUE_SIZE THEN flush(l1, canWrite)
           ELSE l1

\* checkPending of close()
checkPending(l) ==
  IF l.pendingWrites = 0
    THEN [l EXCEPT !.closeTimer = FALSE, !.ends = @ + 1, !.closing = "resolved",
                   !.pollTimer = FALSE]
    ELSE [l EXCEPT !.pollTimer = TRUE]

\* close() without the final flush
closeWithoutFlush(l, canWrite) ==
  IF l.closed THEN l
  ELSE checkPending([l EXCEPT !.closed = TRUE, !.flushTimer = FALSE,
                              !.drainPending = FALSE,
                              !.closing = "waiting", !.closeTimer = TRUE])

\* Logger.close()
close(l, canWrite) ==
  IF l.closed THEN l
  ELSE LET l1 == [l EXCEPT !.closed = TRUE, !.flushTimer = FALSE, !.drainPending = FALSE]
           l2 == flush(l1, canWrite)
       IN  checkPending([l2 EXCEPT !.closing = "waiting", !.closeTimer = TRUE])

\* the timeout callback of close()
closeTimeout(l) ==
  [l EXCEPT !.closeTimer = FALSE, !.ends = @ + 1, !.closing = "resolved",
            !.timedOut = TRUE]

\* the entries of a sequence of batches, in order
RECURSIVE flatten(_)
flatten(batches) ==
  IF batches = <<>> THEN <<>> ELSE Head(batches) \o flatten(Tail(batches))

\* the stream finishes the first k buffered writes: it emits 'drain' if it
\* owes one and its buffer is empty (and end() was not called), then runs
\* the write callbacks
afterWrite(l, k, canWrite) ==
  LET l1 == [l EXCEPT !.written = @ \o flatten(SubSeq(l.buffered, 1, k)),
                      !.buffered = SubSeq(@, k + 1, Len(@))]
      drain == l1.buffered = <<>> /\ l1.needDrain /\ l1.ends = 0
      l2 == IF drain
              THEN flush([l1 EXCEPT !.needDrain = FALSE, !.drainPending = FALSE], canWrite)
              ELSE l1
  IN  [l2 EXCEPT !.pendingWrites = @ - k]

TimeoutChoices == {0, 1}     \* options.timeout: 0 arms no timer
ParallelTimeouts == {0}      \* options.timeout of the runParallel calls explored

\* the elements of S in increasing order
RECURSIVE sortedSeq(_)
sortedSeq(S) ==
  IF S = {} THEN <<>>
  ELSE LET m == CHOOSE a \in S : \A b \in S : a <= b
       IN  <<m>> \o sortedSeq(S \ {m})

\* dependency arrays in which every task depends on earlier tasks only
ForwardGraphs ==
  { [t \in Tasks |-> sortedSeq(g[t])] :
      g \in { h \in [Tasks -> SUBSET Tasks] : \A t \in Tasks : \A u \in h[t] : u < t } }

NotSorted ==
  [called |-> FALSE,
   result |-> [ok |-> FALSE, layers |-> <<>>, message |-> "", exitCode |-> 0]]

InitExecutor ==
  /\ exec = [t \in Tasks |-> NewExec]
  /\ jobs = <<>>
  /\ proc = "running"
  /\ sigCount = 0
  /\ lastSig = "none"
  /\ aborted = FALSE
  /\ rp = NewRp
  /\ pool = NewPool
  /\ tk = [t \in Tasks |-> PlainTask]

InitCommon ==
  /\ InitExecutor
  /\ wr = NewWrapper
  /\ se = NewStderr
  /\ sorted = NotSorted
  /\ src = NoSource
  /\ xf = NewTransform
  /\ pj = NewParse
  /\ lg = NewLogger

\* a caller about to call runTask for one task
InitSingle ==
  /\ InitCommon
  /\ opts \in [parallel : {FALSE}, hasSignal : BOOLEAN,
               timeout : TimeoutChoices, maxWorkers : {0}]
  /\ deps = [t \in Tasks |-> <<>>]

\* a caller about to call runParallel
InitParallel ==
  /\ InitCommon
  /\ opts \in [parallel : {TRUE}, hasSignal : BOOLEAN,
               timeout : ParallelTimeouts, maxWorkers : 0 .. MaxWorkers]
  /\ deps \in ForwardGraphs

Alive == proc = "running"
Idle == Alive /\ jobs = <<>>          \* the event loop may deliver an event
HeadIs(kind) == Alive /\ jobs # <<>> /\ jobs[1][1] = kind

Bundle == [rp |-> rp, pool |-> pool, jobs |-> jobs]
Rest == [rp |-> rp, pool |-> pool, jobs |-> Tail(jobs)]

Commit(r) == /\ rp' = r.rp
             /\ pool' = r.pool
             /\ jobs' = r.jobs

\* the caller calls runTask(taskSpec, backend, options)
\* (by a caller of the library, or by main once the configuration is validated)
CallRunTask ==
  /\ Idle /\ ~opts.parallel /\ exec[1].pc = "idle"
  /\ wr.pc \in {"lib", "validated"}
  /\ \E spawnOk \in BOOLEAN :
       /\ exec' = [exec EXCEPT ![1] = runTaskStart(@, spawnOk, opts.hasSignal)]
       /\ jobs' = IF spawnOk THEN jobs ELSE Append(jobs, Job("error", 1))
  /\ wr' = IF wr.pc = "lib" THEN wr ELSE [wr EXCEPT !.pc = "single"]
  /\ UNCHANGED <<proc, sigCount, lastSig, aborted, opts, deps, tk, rp, pool>>
  /\ UNCHANGED <<sorted, src, xf, pj, lg, se>>

\* the caller calls runParallel(tasks, options)
\* (by a caller of the library, or by main once it has read the task list);
\* with no layer the loop over the layers is not entered
runParallel ==
  /\ Idle /\ opts.parallel /\ rp.pc = "idle"
  /\ wr.pc \in {"lib", "input"}
  /\ LET s == topologicalSort(deps)
     IN  IF ~s.ok
           THEN Commit([Bundle EXCEPT !.rp.pc = "rejected", !.rp.exitCode = s.exitCode])
         ELSE IF s.layers = <<>>
           THEN Commit([Bundle EXCEPT !.rp.pc = "done"])
           ELSE Commit(startLayer([Bundle EXCEPT !.rp.pc = "running",
                                                 !.rp.layers = s.layers,
                                                 !.rp.idx = 1], exec))
  /\ wr' = IF wr.pc = "lib" THEN wr ELSE [wr EXCEPT !.pc = "parallel"]
  /\ UNCHANGED <<exec, proc, sigCount, lastSig, aborted, opts, deps, tk>>
  /\ UNCHANGED <<sorted, src, xf, pj, lg, se>>

\* the async callback runParallel hands to withConcurrencyLimit:
\* getAgentConfig throws for an unknown agent; otherwise the preset is
\* resolved and selectBackend throws or runTask rejects (the backend name and
\* the task text are not modelled), or runTask is called
TaskBody ==
  /\ HeadIs("fn")
  /\ LET t == jobs[1][2]
         known == tk[t].agent = <<>> \/ getAgentConfig(tk[t].agent) = NoError
     IN  \/ /\ exec' = [exec EXCEPT ![t].pc = "threw"]
            /\ Commit(fnSettled(Rest, t, "err"))
            /\ tk' = IF known THEN [tk EXCEPT ![t] = resolveAgent(@)] ELSE tk
         \/ /\ known
            /\ tk' = [tk EXCEPT ![t] = resolveAgent(@)]
            /\ \E spawnOk \in BOOLEAN :
                 /\ exec' = [exec EXCEPT ![t] = runTaskStart(@, spawnOk, FALSE)]
                 /\ Commit(IF spawnOk THEN Rest
                           ELSE [Rest EXCEPT !.jobs = Append(@, Job("error", t))])
  /\ UNCHANGED <<proc, sigCount, lastSig, aborted, opts, deps>>
  /\ UNCHANGED <<sorted, src, xf, pj, lg, wr, se>>

\* the runtime emits 'error' on the child on the tick after a failed spawn;
\* an 'error' event without a listener is thrown as an uncaught exception
EmitSpawnError ==
  /\ HeadIs("error")
  /\ LET t == jobs[1][2]
     IN  IF exec[t].exitListen
           THEN /\ exec' = [exec EXCEPT ![t] = runTaskFinish(@, 127)]
                /\ Commit(fnSettled(Rest, t, "ok"))
                /\ proc' = proc
           ELSE /\ proc' = "uncaught"
                /\ jobs' = Tail(jobs)
                /\ UNCHANGED <<exec, rp, pool>>
  /\ UNCHANGED <<sigCount, lastSig, aborted, opts, deps, tk>>
  /\ UNCHANGED <<sorted, src, xf, pj, lg, wr, se>>

\* the .finally() callback of withConcurrencyLimit, and the settling of the
\* promise it returned
Finally ==
  /\ HeadIs("finally")
  /\ LET t == jobs[1][2]
         o == IF exec[t].pc = "threw" THEN "err" ELSE "ok"
         r1 == [Rest EXCEPT !.pool.executing = @ \ {t}, !.pool.settled[t] = o]
     IN  Commit(IF r1.pool.mode = "loop" /\ r1.pool.racing = "waiting"
                  THEN [r1 EXCEPT !.pool.racing = "settled",
                                  !.jobs = Append(@, Job("loop", t))]
                ELSE IF r1.pool.mode = "gather" THEN promiseAll(r1)
                ELSE r1)
  /\ UNCHANGED <<exec, proc, sigCount, lastSig, aborted, opts, deps, tk>>
  /\ UNCHANGED <<sorted, src, xf, pj, lg, wr, se>>

\* the for loop of withConcurrencyLimit resumes after await Promise.race
LoopResume ==
  /\ HeadIs("loop")
  /\ LET t == jobs[1][2]
     IN  Commit(IF pool.settled[t] = "err"
                  THEN [Rest EXCEPT !.pool.mode = "dead", !.pool.racing = "no",
                                    !.rp.pc = "rejected",
                                    !.rp.exitCode = UnknownNameError.exitCode]
                  ELSE forLoop(Rest))
  /\ UNCHANGED <<exec, proc, sigCount, lastSig, aborted, opts, deps, tk>>
  /\ UNCHANGED <<sorted, src, xf, pj, lg, wr, se>>

\* runParallel resumes after await withConcurrencyLimit: it records the
\* results of the layer and goes on to the next layer
LayerDone ==
  /\ HeadIs("layerdone")
  /\ LET layer == rp.layers[rp.idx]
         rp1 == recordSkipped(recordResults(rp, pool.list, 1, exec), layer, 1)
         r1 == [Rest EXCEPT !.rp = rp1, !.pool = NewPool]
     IN  Commit(IF rp.idx = Len(rp.layers)
                  THEN [r1 EXCEPT !.rp.pc = "done"]
                  ELSE startLayer([r1 EXCEPT !.rp.idx = @ + 1], exec))
  /\ UNCHANGED <<exec, proc, sigCount, lastSig, aborted, opts, deps, tk>>
  /\ UNCHANGED <<sorted, src, xf, pj, lg, wr, se>>

\* the timeout timer of runTask fires
TimeoutFires(t) ==
  /\ Idle /\ exec[t].timer = "armed"
  /\ exec' = [exec EXCEPT ![t] = onTimeout(@)]
  /\ UNCHANGED <<jobs, proc, sigCount, lastSig, aborted, opts, deps, tk, rp, pool>>
  /\ UNCHANGED <<sorted, src, xf, pj, lg, wr, se>>

\* the FORCE_KILL_DELAY timer of terminateProcess fires
KillTimerFires(t) ==
  /\ Idle /\ exec[t].killTimers > 0
  /\ exec' = [exec EXCEPT ![t] = forceKill(@)]
  /\ UNCHANGED <<jobs, proc, sigCount, lastSig, aborted, opts, deps, tk, rp, pool>>
  /\ UNCHANGED <<sorted, src, xf, pj, lg, wr, se>>

\* the caller aborts the AbortSignal it passed in options.signal
Abort ==
  /\ Idle /\ opts.hasSignal /\ ~aborted
  /\ aborted' = TRUE
  /\ exec' = [t \in Tasks |-> IF exec[t].abortL THEN abortHandler(exec[t]) ELSE exec[t]]
  /\ UNCHANGED <<jobs, proc, sigCount, lastSig, opts, deps, tk, rp, pool>>
  /\ UNCHANGED <<sorted, src, xf, pj, lg, wr, se>>

\* the wrapper process receives an OS signal: the listeners installed by
\* setupSignalHandlers run; without a listener the signal ends the process
OsSignal(sig) ==
  /\ Idle /\ sigCount < MaxSignals
  /\ sigCount' = sigCount + 1
  /\ lastSig' = sig
  /\ IF sig \in handledSignals /\ \E t \in Tasks : exec[t].sigL # "none"
       THEN /\ exec' = [t \in Tasks |->
                          IF exec[t].sigL # "none" THEN onSignal(exec[t], sig) ELSE exec[t]]
            /\ proc' = proc
       ELSE /\ proc' = "killed"
            /\ exec' = exec
  /\ UNCHANGED <<jobs, aborted, opts, deps, tk, rp, pool>>
  /\ UNCHANGED <<sorted, src, xf, pj, lg, wr, se>>

\* the child exits by itself with code c
ChildExits(t, c) ==
  /\ Idle /\ exec[t].child = "running"
  /\ exec' = [exec EXCEPT ![t].child = "exited", ![t].status = <<"code", c>>]
  /\ UNCHANGED <<jobs, proc, sigCount, lastSig, aborted, opts, deps, tk, rp, pool>>
  /\ UNCHANGED <<sorted, src, xf, pj, lg, wr, se>>

\* the child is ended by a signal it has received
ChildDies(t) ==
  /\ Idle /\ exec[t].child = "running" /\ exec[t].delivered # <<>>
  /\ exec' = [exec EXCEPT ![t].child = "exited", ![t].status = <<"signal", 0>>]
  /\ UNCHANGED <<jobs, proc, sigCount, lastSig, aborted, opts, deps, tk, rp, pool>>
  /\ UNCHANGED <<sorted, src, xf, pj, lg, wr, se>>

\* the child's stdout ends: parseJSONStream returns and runTask attaches the
\* 'close' and 'error' listeners
StdoutEnd(t) ==
  /\ Idle /\ exec[t].pc = "parsing" /\ HasPid(exec[t])
  /\ exec' = [exec EXCEPT ![t] = runTaskAwaitExit(@)]
  /\ UNCHANGED <<jobs, proc, sigCount, lastSig, aborted, opts, deps, tk, rp, pool>>
  /\ UNCHANGED <<sorted, src, xf, pj, lg, wr, se>>

\* the runtime emits 'close' on the child (it has exited and its streams are
\* closed): the exit promise resolves and runTask returns its TaskResult
ChildClose(t) ==
  /\ Idle /\ exec[t].child = "exited" /\ exec[t].pc = "awaitExit" /\ exec[t].exitListen
  /\ exec' = [exec EXCEPT ![t] = runTaskFinish(@, closeCode(@.status))]
  /\ IF opts.parallel THEN Commit(fnSettled(Bundle, t, "ok"))
                      ELSE UNCHANGED <<jobs, rp, pool>>
  /\ UNCHANGED <<proc, sigCount, lastSig, aborted, opts, deps, tk>>
  /\ UNCHANGED <<sorted, src, xf, pj, lg, wr, se>>

Next ==
  \/ CallRunTask
  \/ runParallel
  \/ TaskBody
  \/ EmitSpawnError
  \/ Finally
  \/ LoopResume
  \/ LayerDone
  \/ \E t \in Tasks : TimeoutFires(t)
  \/ \E t \in Tasks : KillTimerFires(t)
  \/ Abort
  \/ \E sig \in Signals : OsSignal(sig)
  \/ \E t \in Tasks : \E c \in ChildCodes : ChildExits(t, c)
  \/ \E t \in Tasks : ChildDies(t)
  \/ \E t \in Tasks : StdoutEnd(t)
  \/ \E t \in Tasks : ChildClose(t)

Init == InitSingle \/ InitParallel

Spec == Init /\ [][Next]_vars

TypeOK ==
  /\ proc \in {"running", "uncaught", "killed"}
  /\ sigCount \in 0 .. MaxSignals
  /\ \A t \in Tasks : exec[t].pc \in {"idle", "parsing", "awaitExit", "done", "threw"}

\* ---- runTask alone, with the fairness the runtime and the OS guarantee ----

\* a timer that is due fires, a pending job runs, the runtime delivers the
\* events of a child that has exited, and no child survives SIGKILL; nothing
\* makes a child exit by itself or give in to a signal it can ignore
ChildKilled(t) ==
  ChildDies(t) /\ \E i \in 1 .. Len(exec[t].delivered) : exec[t].delivered[i] = "SIGKILL"

StdoutEndAfterExit(t) == StdoutEnd(t) /\ exec[t].child = "exited"

NextSingle ==
  \/ CallRunTask
  \/ EmitSpawnError
  \/ TimeoutFires(1)
  \/ KillTimerFires(1)
  \/ Abort
  \/ \E sig \in Signals : OsSignal(sig)
  \/ \E c \in ChildCodes : ChildExits(1, c)
  \/ ChildDies(1)
  \/ StdoutEnd(1)
  \/ ChildClose(1)

Fairness ==
  /\ WF_vars(CallRunTask)
  /\ WF_vars(EmitSpawnError)
  /\ WF_vars(TimeoutFires(1))
  /\ WF_vars(KillTimerFires(1))
  /\ WF_vars(ChildKilled(1))
  /\ WF_vars(StdoutEndAfterExit(1))
  /\ WF_vars(ChildClose(1))

FairSingle == InitSingle /\ [][NextSingle]_vars /\ Fairness

SingleSpec == InitSingle /\ [][NextSingle]_vars

\* ---- runParallel with no OS signal reaching the wrapper ----

\* runParallel passes no abort signal and (here) no timeout to its tasks, so
\* without an OS signal nothing terminates a child: the timers and the deaths
\* by signal are not steps of this specification
NextParallel ==
  \/ runParallel
  \/ TaskBody
  \/ EmitSpawnError
  \/ Finally
  \/ LoopResume
  \/ LayerDone
  \/ Abort
  \/ \E t \in Tasks : \E c \in ChildCodes : ChildExits(t, c)
  \/ \E t \in Tasks : StdoutEnd(t)
  \/ \E t \in Tasks : ChildClose(t)

ParallelSpec == InitParallel /\ [][NextParallel]_vars

\* ---- topologicalSort called on any task list ----

\* dependency arrays over the ids of the list: any set of ids, in increasing
\* order, with or without its first id entered twice
DepLists ==
  {sortedSeq(S) : S \in SUBSET Tasks}
    \cup {<<sortedSeq(S)[1]>> \o sortedSeq(S) : S \in (SUBSET Tasks) \ {{}}}

IdleOpts == [parallel |-> FALSE, hasSignal |-> FALSE, timeout |-> 0, maxWorkers |-> 0]

InitSort ==
  /\ InitCommon
  /\ opts = IdleOpts
  /\ deps \in [Tasks -> DepLists]

CallTopologicalSort ==
  /\ ~sorted.called
  /\ sorted' = [called |-> TRUE, result |-> topologicalSort(deps)]
  /\ UNCHANGED <<execVars, deps, tk, wr, se, src, xf, pj, lg>>

NextSort == CallTopologicalSort

SortSpec == InitSort /\ [][NextSort]_vars

\* ---- topologicalSort on a list of NumTasks + 1 tasks ----

LongList == 1 .. NumTasks + 1

\* dependency arrays of at most two ids of the list
FewDeps ==
  {<<>>} \cup {<<u>> : u \in LongList}
         \cup {p \in LongList \X LongList : p[1] < p[2]}

InitLayers ==
  /\ InitCommon
  /\ opts = IdleOpts
  /\ deps \in [LongList -> FewDeps]

LayerSpec == InitLayers /\ [][NextSort]_vars

\* ---- runParallel on any task list ----

UnknownId == NumTasks + 1

\* the forward graphs, and the arrays of at most one dependency each, on any
\* id of the list (itself included) or on an id that is not in the list
SingleDepGraphs ==
  [Tasks -> {<<>>} \cup {<<u>> : u \in Tasks \cup {UnknownId}}]

InitGraph ==
  /\ InitCommon
  /\ opts \in [parallel : {TRUE}, hasSignal : BOOLEAN,
               timeout : ParallelTimeouts, maxWorkers : 0 .. MaxWorkers]
  /\ deps \in ForwardGraphs \cup SingleDepGraphs

GraphSpec == InitGraph /\ [][NextParallel]_vars

\* ---- parseJSONStream on a stream of decoded events ----

EventCatalogue ==
  {Unclassified, Plain, Codex, Claude, Opencode}
    \cup {Gemini(v) : v \in {Str(1), Str(2), Str(MAX_MESSAGE_SIZE - 1),
                             Arr(MAX_MESSAGE_SIZE), Obj}}

EventStreams == UNION {[1 .. n -> EventCatalogue] : n \in 0 .. MaxEvents}

\* parseJSONStream has been called; the transform has decoded the whole source
InitParse ==
  /\ InitExecutor
  /\ wr = NewWrapper
  /\ se = NewStderr
  /\ sorted = NotSorted
  /\ lg = NewLogger
  /\ opts = IdleOpts
  /\ deps = [t \in Tasks |-> <<>>]
  /\ \E events \in EventStreams :
       /\ xf = [NewTransform EXCEPT !.out = events, !.flushed = TRUE]
       /\ pj = [NewParse EXCEPT !.pc = "loop"]
  /\ src = NoSource

\* the for await loop takes the next event
ProcessEvent ==
  /\ pj.pc = "loop" /\ xf.out # <<>>
  /\ pj' = processEvent(pj, Head(xf.out))
  /\ xf' = [xf EXCEPT !.out = Tail(@)]
  /\ UNCHANGED <<execVars, deps, tk, wr, se, sorted, src, lg>>

\* the transform has ended and every event was read: parseJSONStream returns
ReturnResult ==
  /\ pj.pc = "loop" /\ xf.out = <<>> /\ xf.flushed
  /\ pj' = [pj EXCEPT !.pc = "returned"]
  /\ UNCHANGED <<execVars, deps, tk, wr, se, sorted, src, xf, lg>>

NextParse == ProcessEvent \/ ReturnResult

ParseSpec == InitParse /\ [][NextParse]_vars

\* ---- parseJSONStream on a stream of bytes ----

LinePieces ==
  { <<>>, <<"SP">>, <<"{", "e1", "}">>, <<"SP", "{", "e2", "}", "SP">>,
    <<"{", "e1">>, <<"e2", "}">>, <<"[", "]">> }

RECURSIVE joinLines(_)
joinLines(lines) ==
  IF Len(lines) = 1 THEN lines[1]
  ELSE lines[1] \o <<"LF">> \o joinLines(Tail(lines))

Contents ==
  { joinLines(lines) \o tail :
      lines \in UNION {[1 .. n -> LinePieces] : n \in 1 .. MaxLines},
      tail \in {<<>>, <<"LF">>} }

InitTransform ==
  /\ InitExecutor
  /\ wr = NewWrapper
  /\ se = NewStderr
  /\ sorted = NotSorted
  /\ lg = NewLogger
  /\ opts = IdleOpts
  /\ deps = [t \in Tasks |-> <<>>]
  /\ \E content \in Contents : src = [NoSource EXCEPT !.content = content]
  /\ xf = NewTransform
  /\ pj = [NewParse EXCEPT !.pc = "loop"]

\* the source delivers its next n bytes as one chunk
StdoutChunk ==
  /\ ~xf.flushed
  /\ \E n \in 1 .. Len(src.content) - src.pos :
       /\ xf' = JSONLineTransform_transform(xf, SubSeq(src.content, src.pos + 1, src.pos + n))
       /\ src' = [src EXCEPT !.pos = @ + n,
                              !.cut = @ \/ src.content[src.pos + n] # "LF"]
  /\ UNCHANGED <<execVars, deps, tk, wr, se, sorted, pj, lg>>

\* the source ends
StdoutEOF ==
  /\ ~xf.flushed /\ src.pos = Len(src.content)
  /\ xf' = JSONLineTransform_flush(xf)
  /\ UNCHANGED <<execVars, deps, tk, wr, se, sorted, src, pj, lg>>

NextTransform == StdoutChunk \/ StdoutEOF \/ ProcessEvent \/ ReturnResult

TransformSpec == InitTransform /\ [][NextTransform]_vars

\* ---- one Logger ----

InitLogger ==
  /\ InitCommon
  /\ opts = IdleOpts
  /\ deps = [t \in Tasks |-> <<>>]

\* info(), warn(), error() or debug() is called; debug() logs only when the
\* environment variable DEBUG is set
LogCall ==
  /\ lg.calls < MaxCalls
  /\ \E level \in Levels, DEBUG \in BOOLEAN, canWrite \in BOOLEAN :
       LET entry == [id |-> lg.calls + 1, level |-> level]
           made == level # "debug" \/ DEBUG
           l1 == IF made THEN log(lg, entry, canWrite) ELSE lg
       IN  lg' = [l1 EXCEPT !.calls = @ + 1,
                            !.lastCall = level,
                            !.submitted = IF made /\ ~lg.closed
                                            THEN Append(@, entry) ELSE @,
                            !.heldBack = @ \/ (made /\ ~lg.closed /\ lg.drainPending)]
  /\ UNCHANGED <<execVars, deps, tk, wr, se, sorted, src, xf, pj>>

CloseCall ==
  /\ lg.calls < MaxCalls
  /\ \E canWrite \in BOOLEAN :
       lg' = [close(lg, canWrite) EXCEPT !.calls = @ + 1, !.lastCall = "close"]
  /\ UNCHANGED <<execVars, deps, tk, wr, se, sorted, src, xf, pj>>

\* the setInterval timer of the constructor fires
FlushTimerFires ==
  /\ lg.flushTimer
  /\ \E canWrite \in BOOLEAN : lg' = flush(lg, canWrite)
  /\ UNCHANGED <<execVars, deps, tk, wr, se, sorted, src, xf, pj>>

\* the stream completes buffered writes
WriteCompletes ==
  /\ lg.buffered # <<>>
  /\ \E k \in 1 .. Len(lg.buffered), canWrite \in BOOLEAN :
       lg' = afterWrite(lg, k, canWrite)
  /\ UNCHANGED <<execVars, deps, tk, wr, se, sorted, src, xf, pj>>

\* the 50 ms timer of close() fires
PollTimerFires ==
  /\ lg.pollTimer
  /\ lg' = checkPending(lg)
  /\ UNCHANGED <<execVars, deps, tk, wr, se, sorted, src, xf, pj>>

\* the CLOSE_TIMEOUT_MS timer of close() fires
CloseTimeoutFires ==
  /\ lg.closeTimer
  /\ lg' = closeTimeout(lg)
  /\ UNCHANGED <<execVars, deps, tk, wr, se, sorted, src, xf, pj>>

NextLogger ==
  \/ LogCall
  \/ CloseCall
  \/ FlushTimerFires
  \/ WriteCompletes
  \/ PollTimerFires
  \/ CloseTimeoutFires

LoggerSpec == InitLogger /\ [][NextLogger]_vars

\* a timer that is armed fires; nothing makes the stream complete a write
FairLogger ==
  /\ InitLogger /\ [][NextLogger]_vars
  /\ WF_vars(PollTimerFires)
  /\ WF_vars(CloseTimeoutFires)

\* ---- a Logger that has already retained entries ----

\* the numbers of error() calls made, and written, before the calls explored:
\* none, or enough for the next ones to reach the trimming
EarlierErrors == {0} \cup (2 * MAX_ERROR_ENTRIES - 2 .. 2 * MAX_ERROR_ENTRIES)

\* the entries of k earlier error() calls (ids k - 1 below zero up to zero)
earlierEntries(k) == [i \in 1 .. k |-> [id |-> i - k, level |-> "error"]]

InitRetained ==
  /\ InitExecutor
  /\ wr = NewWrapper /\ se = NewStderr
  /\ sorted = NotSorted /\ src = NoSource /\ xf = NewTransform /\ pj = NewParse
  /\ opts = IdleOpts
  /\ deps = [t \in Tasks |-> <<>>]
  /\ \E k \in EarlierErrors :
       lg = [NewLogger EXCEPT !.errorEntries = earlierEntries(k),
                              !.submitted = earlierEntries(k),
                              !.written = earlierEntries(k)]

\* the completion of writes does not touch the retained entries and is left out
NextRetained == LogCall \/ CloseCall

RetainedSpec == InitRetained /\ [][NextRetained]_vars

\* ---- the wrapper process in single-task mode ----

SessionIds == {<<>>, <<"a", " ">>, <<"a", "-", "1">>}
AgentNames == {<<>>, <<"a", "!">>, <<"o", "x">>, <<"o", "r">>}

\* what parseCliArgs and the environment may yield without --parallel
SingleConfigs ==
  [ parallel : {FALSE}, mode : {"new", "resume"}, task : {"", "x"},
    explicitStdin : {FALSE}, sessionId : SessionIds,
    promptFile : {"", "missing", "unreadable", "file"},
    workDir : {"", "missing", "dir"}, agent : AgentNames,
    backend : {"", "nope", "gemini", "codex"}, timeout : {0, 1, 86401},
    maxParallelWorkers : {0, 1001} ]

\* the options main hands to runTask and runParallel: no signal, the
\* timeout of the configuration (in milliseconds there), its worker limit
mainOptions(config) ==
  [ parallel |-> config.parallel, hasSignal |-> FALSE,
    timeout |-> config.timeout, maxWorkers |-> config.maxParallelWorkers ]

\* the entry point is about to call main with the configuration c
InitMain(c) ==
  /\ InitExecutor
  /\ sorted = NotSorted
  /\ src = NoSource
  /\ xf = NewTransform
  /\ pj = NewParse
  /\ lg = NewLogger
  /\ se = NewStderr
  /\ wr = [NewWrapper EXCEPT !.pc = "start", !.config = c]
  /\ opts = mainOptions(c)

InitMainSingle ==
  /\ \E c \in SingleConfigs : InitMain(c)
  /\ deps = [t \in Tasks |-> <<>>]

\* main from its call to the end of "await readParallelInput()" (parallel
\* mode) or of "await validateConfig(config)"
Main ==
  /\ Idle /\ wr.pc = "start"
  /\ LET e == validateConfig(wr.config)
     IN  wr' = IF wr.config.parallel THEN [wr EXCEPT !.pc = "input"]
               ELSE IF e # NoError THEN mainSettled(wr, e, "validateConfig")
               ELSE [wr EXCEPT !.pc = "validated"]
  /\ UNCHANGED <<execVars, deps, tk, sorted, src, xf, pj, lg, se>>

\* main after validateConfig: getAgentConfig and selectBackend, which may
\* throw, then the call of runTask
MainRunTask ==
  /\ Idle /\ wr.pc = "validated"
  /\ LET c  == wr.config
         e1 == IF c.agent # <<>> THEN getAgentConfig(c.agent) ELSE NoError
         e2 == IF c.backend # "" THEN selectBackend(c.backend) ELSE NoError
     IN  IF e1 # NoError
           THEN /\ wr' = mainSettled(wr, e1, "getAgentConfig")
                /\ UNCHANGED <<execVars, deps, tk, sorted, src, xf, pj, lg, se>>
         ELSE IF e2 # NoError
           THEN /\ wr' = mainSettled(wr, e2, "selectBackend")
                /\ UNCHANGED <<execVars, deps, tk, sorted, src, xf, pj, lg, se>>
         ELSE CallRunTask

\* main resumes after "await runTask(...)": it throws an error that carries
\* the exit code of a result that is not 0
MainSingleReturns ==
  /\ Alive /\ wr.pc = "single" /\ exec[1].pc = "done"
  /\ wr' = mainSettled(wr, mainSingleOutcome(exec[1].exitCode), "runTask")
  /\ UNCHANGED <<execVars, deps, tk, sorted, src, xf, pj, lg, se>>

NextMainSingle ==
  \/ Main
  \/ MainRunTask
  \/ MainSingleReturns
  \/ EmitSpawnError
  \/ TimeoutFires(1)
  \/ KillTimerFires(1)
  \/ \E sig \in Signals : OsSignal(sig)
  \/ \E c \in ChildCodes : ChildExits(1, c)
  \/ ChildDies(1)
  \/ StdoutEnd(1)
  \/ ChildClose(1)

MainSingleSpec == InitMainSingle /\ [][NextMainSingle]_vars

\* ---- the wrapper process in parallel mode ----

\* what parseCliArgs and the environment may yield with --parallel
ParallelConfigs ==
  { [DefaultConfig EXCEPT !.parallel = TRUE, !.timeout = t, !.maxParallelWorkers = w] :
      t \in ParallelTimeouts, w \in 0 .. MaxWorkers }

\* the task lists read from stdin: the first n tasks of a forward graph
\* (n = 0: no task at all), and the lists of SingleDepGraphs
TaskLists ==
  { [t \in 1 .. n |-> g[t]] : n \in 0 .. NumTasks, g \in ForwardGraphs }
    \cup SingleDepGraphs

InitMainParallel ==
  /\ \E c \in ParallelConfigs : InitMain(c)
  /\ deps \in TaskLists

\* main resumes after "await runParallel(...)" has returned the results
MainParallelReturns ==
  /\ Alive /\ wr.pc = "parallel" /\ rp.pc = "done"
  /\ wr' = mainSettled(wr, mainParallelOutcome(rp.results), "results")
  /\ UNCHANGED <<execVars, deps, tk, sorted, src, xf, pj, lg, se>>

\* "await runParallel(...)" throws the error runParallel rejected with
MainParallelRejected ==
  /\ Alive /\ wr.pc = "parallel" /\ rp.pc = "rejected"
  /\ wr' = mainSettled(wr, ExitCodeError(rp.exitCode), "runParallel")
  /\ UNCHANGED <<execVars, deps, tk, sorted, src, xf, pj, lg, se>>

NextMainParallel ==
  \/ Main
  \/ runParallel
  \/ MainParallelReturns
  \/ MainParallelRejected
  \/ TaskBody
  \/ EmitSpawnError
  \/ Finally
  \/ LoopResume
  \/ LayerDone
  \/ \E t \in Tasks : \E c \in ChildCodes : ChildExits(t, c)
  \/ \E t \in Tasks : StdoutEnd(t)
  \/ \E t \in Tasks : ChildClose(t)

MainParallelSpec == InitMainParallel /\ [][NextMainParallel]_vars

\* ---- the wrapper process run on one task, in either mode ----

\* the same task and timeout, given on the command line or as the only
\* task of a --parallel input
OneTaskConfigs ==
  { [DefaultConfig EXCEPT !.parallel = p, !.task = IF p THEN "" ELSE "x", !.timeout = 1] :
      p \in BOOLEAN }

InitOneTask ==
  /\ \E c \in OneTaskConfigs : InitMain(c)
  /\ deps = << <<>> >>

NextOneTask ==
  \/ Main
  \/ MainRunTask
  \/ MainSingleReturns
  \/ runParallel
  \/ MainParallelReturns
  \/ MainParallelRejected
  \/ TaskBody
  \/ LayerDone
  \/ EmitSpawnError
  \/ TimeoutFires(1)
  \/ KillTimerFires(1)
  \/ \E sig \in Signals : OsSignal(sig)
  \/ \E c \in ChildCodes : ChildExits(1, c)
  \/ ChildDies(1)
  \/ StdoutEnd(1)
  \/ ChildClose(1)

OneTaskSpec == InitOneTask /\ [][NextOneTask]_vars

\* ---- runParallel on tasks that name agent presets ----

\* task objects without an agent, with a known one (with and without a
\* reasoningEffort in its preset) or with an unknown one, and with or
\* without a reasoningEffort of their own
AgentTasks ==
  [agent : {<<>>, <<"o", "r">>, <<"a", "1">>, <<"o", "x">>},
   backend : {""}, model : {""}, reasoningEffort : {"", "low"}]

\* two tasks, the second depending on the first or not
InitAgents ==
  /\ exec = [t \in Tasks |-> NewExec]
  /\ jobs = <<>> /\ proc = "running" /\ sigCount = 0 /\ lastSig = "none"
  /\ aborted = FALSE /\ rp = NewRp /\ pool = NewPool
  /\ wr = NewWrapper /\ se = NewStderr
  /\ sorted = NotSorted /\ src = NoSource /\ xf = NewTransform
  /\ pj = NewParse /\ lg = NewLogger
  /\ opts = [parallel |-> TRUE, hasSignal |-> FALSE, timeout |-> 0, maxWorkers |-> 0]
  /\ deps \in {<< <<>>, <<>> >>, << <<>>, <<1>> >>}
  /\ tk \in {f \in [Tasks -> AgentTasks] : \A t \in Tasks : t > 2 => f[t] = PlainTask}

NextAgents ==
  \/ runParallel
  \/ TaskBody
  \/ EmitSpawnError
  \/ LayerDone
  \/ \E t \in Tasks : \E c \in ChildCodes : ChildExits(t, c)
  \/ \E t \in Tasks : StdoutEnd(t)
  \/ \E t \in Tasks : ChildClose(t)

AgentSpec == InitAgents /\ [][NextAgents]_vars

\* ---- the stderr of one child ----

\* what the child writes to stderr, byte by byte
StderrPattern == <<"a", "L", "C", "BEL">>
StderrByte(k) == StderrPattern[((k - 1) % Len(StderrPattern)) + 1]

\* the sizes of the chunks the stream may deliver
ChunkSizes == 1 .. 2 * STDERR_BUFFER_SIZE

\* the exit codes a TaskResult may carry
ExitCodes == ChildCodes \cup {124, 127, 130}

InitStderr ==
  /\ InitCommon
  /\ opts = IdleOpts
  /\ deps = [t \in Tasks |-> <<>>]

\* child.stderr emits 'data' with the next n bytes
StderrData ==
  /\ ~se.returned /\ se.chunks < MaxChunks
  /\ \E n \in ChunkSizes :
       se' = onStderrData(se, [i \in 1 .. n |-> StderrByte(Len(se.written) + i)])
  /\ UNCHANGED <<execVars, deps, tk, wr, sorted, src, xf, pj, lg>>

\* runTask builds its TaskResult with the final exit code c
TaskResultBuilt ==
  /\ ~se.returned
  /\ \E c \in ExitCodes : se' = stderrResult(se, c)
  /\ UNCHANGED <<execVars, deps, tk, wr, sorted, src, xf, pj, lg>>

NextStderr == StderrData \/ TaskResultBuilt

StderrSpec == InitStderr /\ [][NextStderr]_vars

\* ---- properties ----

Range(q) == {q[i] : i \in 1 .. Len(q)}
Started(t) == exec[t].pc # "idle"
InFlight == {t \in Tasks : exec[t].pc \in {"parsing", "awaitExit"}}
LayerOf(t) == CHOOSE i \in 1 .. Len(rp.layers) : t \in Range(rp.layers[i])
Returns(t) == exec[t].pc # "done" /\ exec'[t].pc = "done"

\* the exit code the priority rule gives for the flags and the child of e
RuleExitCode(e) ==
  IF e.timedOut THEN 124
  ELSE IF e.interrupted THEN 130
  ELSE IF e.child = "spawnfail" THEN 127
  ELSE IF e.status[1] = "code" THEN e.status[2]
  ELSE 1

\* C1: whenever a runTask invocation returns, the exit code of its result is
\* the one the priority rule gives for (timed out, interrupted, spawn failure,
\* child exit code) at that moment: 124, else 130, else 127, else the child's
\* code with an unknown code mapped to 1.
C1_ExitCodeByPriority ==
  [][\A t \in Tasks : Returns(t) => exec'[t].exitCode = RuleExitCode(exec[t])]_vars

\* a run that both timed out and was interrupted has returned 124
C1_Witness ==
  \E t \in Tasks : /\ exec[t].pc = "done"
                   /\ exec[t].timedOut /\ exec[t].interrupted
                   /\ exec[t].exitCode = 124

\* a task has terminated for the scheduler: its result is recorded, or it is
\* marked skipped and was never run
Terminated(t) ==
  \/ t \in rp.completed /\ exec[t].pc = "done"
  \/ t \in rp.skipped /\ exec[t].pc = "idle"

\* C2: in runParallel a task is started only when each of its dependencies,
\* and every task of the earlier layers, has terminated.
C2_StartAfterDependencies ==
  opts.parallel =>
    \A t \in Tasks :
      Started(t) =>
        /\ \A d \in Range(deps[t]) : Terminated(d)
        /\ \A u \in Tasks : LayerOf(u) < LayerOf(t) => Terminated(u)

\* a task with a dependency is running
C2_Witness ==
  \E t \in Tasks : /\ opts.parallel /\ deps[t] # <<>>
                   /\ exec[t].child = "running"

ResultsOf(t) == {k \in 1 .. Len(rp.results) : rp.results[k].taskId = t}
DependencyFailedInResults(t) ==
  \E d \in Range(deps[t]) : \E k \in ResultsOf(d) : rp.results[k].exitCode # 0

\* C3: a result is a Skipped one (exit code 1, no child spawned) exactly when a
\* dependency of its task has a non-zero or Skipped result; every task that
\* is started has only dependencies with a zero result, and when runParallel
\* returns every task whose dependencies all gave 0 has been run.
C3_SkippedIffDependencyFailed ==
  opts.parallel =>
    /\ \A k \in 1 .. Len(rp.results) :
         LET r == rp.results[k]
         IN  /\ r.skipped <=> DependencyFailedInResults(r.taskId)
             /\ r.skipped => r.exitCode = 1 /\ exec[r.taskId].child = "none"
             /\ ~r.skipped => exec[r.taskId].pc = "done"
    /\ \A t \in Tasks :
         Started(t) => /\ ~DependencyFailedInResults(t)
                       /\ \A d \in Range(deps[t]) : ResultsOf(d) # {}
    /\ rp.pc = "done" =>
         \A t \in Tasks :
           ~DependencyFailedInResults(t) =>
              \E k \in ResultsOf(t) : ~rp.results[k].skipped

\* a task is skipped because its dependency was skipped, and another one ran
C3_Witness ==
  /\ rp.pc = "done"
  /\ \E k \in 1 .. Len(rp.results) :
       /\ rp.results[k].skipped
       /\ \E d \in Range(deps[rp.results[k].taskId]) :
            \E j \in ResultsOf(d) : rp.results[j].skipped
  /\ \E k \in 1 .. Len(rp.results) : ~rp.results[k].skipped

\* C4: once the timeout has fired on a running child, runTask eventually
\* returns with exit code 124, also for a child that ignores SIGTERM.
C4_TimeoutReturns124 ==
  \A t \in Tasks :
    (exec[t].timedOut /\ exec[t].child = "running")
      ~> (exec[t].pc = "done" /\ exec[t].exitCode = 124)

\* C5: when termination begins SIGTERM is sent first, and when the grace
\* timer fires on a child that is still running SIGKILL is sent to it.
C5_KillAfterGrace ==
  [][\A t \in Tasks :
       /\ exec'[t].killTimers > exec[t].killTimers /\ exec[t].child = "running"
            => exec'[t].delivered = Append(exec[t].delivered, "SIGTERM")
       /\ exec'[t].killTimers < exec[t].killTimers /\ exec[t].child = "running"
            => "SIGKILL" \in Range(exec'[t].delivered)]_vars

\* C6: a failed spawn never ends in an uncaught exception, and the runTask
\* invocation that returns after it (not timed out, not interrupted) gives 127.
C6_SpawnFailureGives127 ==
  \A t \in Tasks :
    exec[t].child = "spawnfail" =>
      /\ proc # "uncaught"
      /\ exec[t].pc = "done" /\ ~exec[t].timedOut /\ ~exec[t].interrupted
           => exec[t].exitCode = 127

\* C7: an OS signal that reaches the wrapper is forwarded to every child that
\* is running and marks its execution interrupted, and an interrupted
\* execution that has not timed out returns 130.
C7_SignalForwardedToAll ==
  [][/\ sigCount' = sigCount + 1 =>
          \A t \in Tasks :
            exec[t].child = "running" =>
              /\ exec'[t].interrupted
              /\ exec'[t].delivered = Append(exec[t].delivered, lastSig')
     /\ \A t \in Tasks :
          Returns(t) /\ exec[t].interrupted /\ ~exec[t].timedOut
            => exec'[t].exitCode = 130]_vars

\* C8: when the caller aborts a running runParallel every running child is
\* sent SIGTERM and its execution is marked interrupted, and from then on no
\* task is started and no result is added for a task that was not started.
C8_AbortReachesEveryTask ==
  [][opts.parallel =>
       /\ (~aborted /\ aborted') =>
            \A t \in Tasks :
              exec[t].child = "running" =>
                /\ exec'[t].interrupted
                /\ "SIGTERM" \in Range(exec'[t].delivered)
       /\ aborted =>
            \A t \in Tasks :
              ~Started(t) => /\ exec'[t].pc = "idle"
                             /\ ResultsOf(t)' = {}]_vars

\* C9: a task body that throws does not make runParallel fail: runParallel
\* goes on, and when it returns the task has a non-zero result and every
\* task of the run has a result.
C9_TaskFailureIsAResult ==
  \A t \in Tasks :
    exec[t].pc = "threw" =>
      /\ rp.pc \in {"running", "done"}
      /\ rp.pc = "done" =>
           /\ \E k \in ResultsOf(t) : rp.results[k].exitCode # 0
           /\ \A u \in Tasks : ResultsOf(u) # {}

Limited == opts.maxWorkers > 0 /\ opts.maxWorkers < Len(pool.list)

\* C10: under a limit 0 < maxWorkers < |runnable| at most maxWorkers tasks of
\* the layer are started and not completed, so that a task is started only
\* when fewer are; without such a limit every runnable task has been started
\* by the time the event loop takes its next event.
C10_ConcurrencyLimit ==
  /\ Limited => Cardinality(InFlight \cap Range(pool.list)) <= opts.maxWorkers
  /\ (~Limited /\ Idle) => \A t \in Range(pool.list) : Started(t)

\* the pool is full while a task of the layer waits to be started
C10_Witness ==
  /\ Limited
  /\ Cardinality(InFlight) = opts.maxWorkers
  /\ \E t \in Range(pool.list) : ~Started(t)
  /\ \E t \in Range(pool.list) : exec[t].pc = "done"

\* the pairs (t, u) with u a dependency of t, closed under composition
\* through the tasks 1 .. k
RECURSIVE dependsVia(_, _)
dependsVia(d, k) ==
  IF k = 0
    THEN {p \in Tasks \X Tasks : \E i \in 1 .. Len(d[p[1]]) : d[p[1]][i] = p[2]}
    ELSE LET P == dependsVia(d, k - 1)
         IN  P \cup {p \in Tasks \X Tasks : <<p[1], k>> \in P /\ <<k, p[2]>> \in P}

\* no task depends on itself, directly or through other tasks
Acyclic(d) == \A t \in Tasks : <<t, t>> \notin dependsVia(d, NumTasks)

\* C11: for unique ids and dependencies that all exist, topologicalSort
\* returns layers holding every task exactly once if and only if the graph is
\* acyclic (self-dependencies and repeated entries included), and for a
\* cyclic graph it throws 'Circular dependency detected' with exit code 2.
C11_SortsIffAcyclic ==
  sorted.called =>
    LET r == sorted.result
        placed == flatten(r.layers)
    IN  /\ r.ok <=> Acyclic(deps)
        /\ r.ok => /\ Len(placed) = NumTasks
                   /\ Range(placed) = Tasks
        /\ ~r.ok => /\ r.message = "Circular dependency detected"
                    /\ r.exitCode = 2

C11_Witness ==
  /\ sorted.called /\ sorted.result.ok
  /\ Len(sorted.result.layers) > 1
  /\ \E t \in Tasks : Len(deps[t]) > Cardinality(Range(deps[t]))

\* C12: runParallel on a cyclic graph, or with a dependency on an id that is
\* not in the task list, fails with exit code 2 before any task is started:
\* no child is spawned and no result is produced.
C12_BadGraphFailsBeforeStart ==
  (unknownDependency(deps) \/ ~Acyclic(deps)) =>
    /\ \A t \in Tasks : exec[t].pc = "idle" /\ exec[t].child = "none"
    /\ rp.results = <<>>
    /\ jobs = <<>>
    /\ rp.pc # "idle" => rp.pc = "rejected" /\ rp.exitCode = 2

C12_Witness ==
  /\ rp.pc = "rejected"
  /\ ~unknownDependency(deps) /\ ~Acyclic(deps)
  /\ \E t \in Tasks : deps[t] = <<>>

\* the classification of the first event of the sequence that has one
RECURSIVE FirstFlavor(_)
FirstFlavor(events) ==
  IF events = <<>> THEN "unknown"
  ELSE IF detectBackend(Head(events)) # "unknown" THEN detectBackend(Head(events))
  ELSE FirstFlavor(Tail(events))

\* the flavor the i-th event of the sequence is to be read under
FlavorAt(events, i) == FirstFlavor(SubSeq(events, 1, i))

\* the non-empty message texts of the events, each read under its flavor
MessagesRead(events) ==
  LET all == [i \in 1 .. Len(events) |-> extractMessage(events[i], FlavorAt(events, i))]
  IN  SelectSeq(all, truthy)

\* C13: the flavor of a stream is UNKNOWN until the first event that
\* classifies, then it is that event's flavor for good: every event is handed
\* to onEvent, and its message is extracted, under the flavor of the first
\* classifiable event up to it, whatever it would classify as on its own.
C13_FlavorFixedByFirstClassifiable ==
  /\ pj.detectedBackend = FirstFlavor(pj.seen)
  /\ Len(pj.onEvent) = Len(pj.seen)
  /\ \A i \in 1 .. Len(pj.seen) : pj.onEvent[i] = FlavorAt(pj.seen, i)
  /\ pj.onMessage = MessagesRead(pj.seen)

C13_Witness ==
  /\ pj.pc = "returned" /\ Len(pj.seen) = 3
  /\ detectBackend(pj.seen[1]) = "unknown"
  /\ detectBackend(pj.seen[2]) # "unknown"
  /\ detectBackend(pj.seen[3]) \notin {"unknown", detectBackend(pj.seen[2])}
  /\ pj.detectedBackend = detectBackend(pj.seen[2])

\* the session id extracted from the i-th event of the sequence
IdAt(events, i) == extractSessionId(events[i], FlavorAt(events, i))

\* C14: the session id parseJSONStream holds (and returns) is the first
\* non-empty id extracted from the events read so far, in source order; a
\* later id never replaces it.
C14_FirstSessionIdWins ==
  LET ids == {i \in 1 .. Len(pj.seen) : IdAt(pj.seen, i) # ""}
  IN  IF ids = {} THEN pj.sessionId = ""
      ELSE pj.sessionId = IdAt(pj.seen, CHOOSE i \in ids : \A j \in ids : i <= j)

C14_Witness ==
  /\ pj.pc = "returned"
  /\ \E i, j \in 1 .. Len(pj.seen) :
       /\ i < j
       /\ IdAt(pj.seen, i) # "" /\ IdAt(pj.seen, j) # ""
       /\ IdAt(pj.seen, i) # IdAt(pj.seen, j)
       /\ \A h \in 1 .. i - 1 : IdAt(pj.seen, h) = ""
       /\ pj.sessionId = IdAt(pj.seen, i)

\* C15: after any sequence of decoded events the fragments accumulated for
\* the message add up to at most 10 MiB, and the events after the cap was
\* hit are still read.
C15_MessageWithinCap ==
  /\ joinedLength(pj.messages) <= MAX_MESSAGE_SIZE
  /\ pj.pc = "returned" => xf.out = <<>>

\* C16: once a fragment was dropped because it would have exceeded the cap,
\* the accumulated message no longer grows, also by a later fragment that
\* would fit, while later events still reach onEvent and the session id.
C16_NothingAppendedAfterDrop ==
  [][pj.dropped => /\ pj'.messages = pj.messages
                   /\ Len(pj'.seen) > Len(pj.seen) =>
                        /\ Len(pj'.onEvent) = Len(pj.onEvent) + 1
                        /\ pj.sessionId = "" =>
                             pj'.sessionId = IdAt(pj'.seen, Len(pj'.seen))]_vars

\* the events of a byte content taken as a whole: those of its lines, the
\* last line ending at the end of the content if no LF follows it
RECURSIVE DecodeAll(_)
DecodeAll(bytes) ==
  IF bytes = <<>> THEN <<>>
  ELSE IF \A i \in 1 .. Len(bytes) : bytes[i] # "LF" THEN decodeLine(bytes)
  ELSE LET k == CHOOSE i \in 1 .. Len(bytes) :
                  bytes[i] = "LF" /\ \A j \in 1 .. i - 1 : bytes[j] # "LF"
       IN  decodeLine(SubSeq(bytes, 1, k - 1)) \o DecodeAll(SubSeq(bytes, k + 1, Len(bytes)))

FirstId(events) ==
  LET ids == {i \in 1 .. Len(events) : IdAt(events, i) # ""}
  IN  IF ids = {} THEN ""
      ELSE IdAt(events, CHOOSE i \in ids : \A j \in ids : i <= j)

\* C17: whatever the chunks the bytes arrive in, the events reach the loop
\* once each and in source order, and the result and the onEvent calls are
\* those of the content as a whole, a last line without LF included.
C17_ChunkingDoesNotMatter ==
  LET all == DecodeAll(src.content)
      got == pj.seen \o xf.out
  IN  /\ Len(got) <= Len(all) /\ got = SubSeq(all, 1, Len(got))
      /\ pj.pc = "returned" =>
           /\ pj.seen = all
           /\ pj.onEvent = [i \in 1 .. Len(all) |-> FlavorAt(all, i)]
           /\ parseResult(pj) = [ message     |-> joinedLength(MessagesRead(all)),
                                  sessionId   |-> FirstId(all),
                                  backendType |-> FirstFlavor(all) ]

C17_Witness ==
  /\ pj.pc = "returned" /\ src.cut
  /\ src.content[Len(src.content)] = "}"
  /\ Len(pj.seen) = 2 /\ pj.seen[1] # pj.seen[2]

\* C18: every entry submitted before close() is in the queue, handed to the
\* sink or written, once, and these three in this order are the entries in
\* submission order; when close() resolves before its timeout every entry
\* has been written, also those queued while a drain was pending.
C18_EveryEntryWrittenOnceInOrder ==
  /\ lg.written \o flatten(lg.buffered) \o lg.queue = lg.submitted
  /\ (lg.closing = "resolved" /\ ~lg.timedOut) => lg.written = lg.submitted

C18_Witness ==
  /\ lg.closing = "resolved" /\ ~lg.timedOut
  /\ lg.heldBack
  /\ Len(lg.written) >= 3

\* the step is a call of info, warn, error or debug
IsLogCall == lg'.calls = lg.calls + 1 /\ lg'.lastCall \in Levels

\* C19: warn() or error() on an open Logger whose sink is not in
\* backpressure hands the entry, and everything queued before it, to the sink
\* within the call: the queue is empty when the call returns.
C19_WarnAndErrorFlushAtOnce ==
  [][(IsLogCall /\ lg'.lastCall \in {"warn", "error"} /\ ~lg.closed /\ ~lg.needDrain) =>
       /\ lg'.queue = <<>>
       /\ flatten(lg'.buffered) =
            flatten(lg.buffered) \o lg.queue
              \o <<[id |-> lg'.calls, level |-> lg'.lastCall]>>]_vars

C19_Witness ==
  /\ ~lg.closed /\ lg.lastCall \in {"warn", "error"}
  /\ lg.queue = <<>> /\ lg.buffered # <<>>
  /\ LET batch == lg.buffered[Len(lg.buffered)]
     IN  Len(batch) >= 2 /\ batch[Len(batch)].id = lg.calls

\* C20: after close() was called, a call of info, warn, error or debug
\* changes nothing in the Logger or its sink: the queue, the retained error
\* entries and what was handed to the sink stay as they are.
C20_NoEffectAfterClose ==
  [][(IsLogCall /\ lg.closed) =>
       lg' = [lg EXCEPT !.calls = @ + 1, !.lastCall = lg'.lastCall]]_vars

C20_Witness ==
  /\ lg.closed /\ lg.lastCall \in {"warn", "error"}
  /\ lg.buffered # <<>>

\* C21: close() stops the flush timer and flushes the queue; its promise
\* resolves on the drained path only when no write is pending; and once
\* close() was called the promise is eventually resolved and the sink ended,
\* by the close timeout if the writes never complete.
C21_CloseResolvesAndEndsSink ==
  /\ [](lg.closed => ~lg.flushTimer /\ lg.queue = <<>>)
  /\ []((lg.closing = "resolved" /\ ~lg.timedOut) =>
          lg.pendingWrites = 0 /\ lg.buffered = <<>>)
  /\ (lg.closed ~> (lg.closing = "resolved" /\ lg.ends >= 1))

C21_Witness ==
  /\ lg.closing = "resolved" /\ lg.timedOut
  /\ lg.pendingWrites > 0
  /\ Len(lg.submitted) >= 2

\* process.listenerCount(sig) over the listeners the executions installed
\* (the caller had none of its own)
listenerCount(sig) ==
  IF sig \in handledSignals
    THEN Cardinality({t \in Tasks : exec[t].sigL # "none"})
    ELSE 0

\* C22: when an execution has ended, the listener it installed with
\* setupSignalHandlers is gone: with every execution ended, the listener
\* count of each handled signal is back at its value before the first one.
C22_ListenersRemovedAfterExecution ==
  /\ \A t \in Tasks : exec[t].pc = "done" => exec[t].sigL = "none"
  /\ (\A t \in Tasks : exec[t].pc \in {"idle", "done"}) =>
       \A sig \in handledSignals : listenerCount(sig) = 0

\* the exit code of the wrapper process: an uncaught exception ends it with 1
wrapperExitCode == IF proc = "uncaught" THEN 1 ELSE wr.exitCode
WrapperExited == proc = "uncaught" \/ wr.pc = "exited"

\* C23: a configuration error that validateConfig detects (missing task,
\* malformed session id, invalid agent name, timeout out of range, prompt
\* file missing or unreadable, ...) ends the wrapper with exit code 2, and no
\* child has been spawned.
C23_ConfigErrorExitsWith2 ==
  (wr.pc = "exited" /\ wr.failedAt = "validateConfig") =>
     /\ wr.exitCode = 2
     /\ \A t \in Tasks : exec[t].child = "none"

SomeResultFailed == \E k \in 1 .. Len(rp.results) : rp.results[k].exitCode # 0

\* C24 as stated: in parallel mode the exit code of the wrapper is non-zero
\* if and only if some task result has a non-zero exit code, and an empty
\* task list gives an empty result list and exit code 0.
C24_NonZeroIffSomeResultNonZero ==
  WrapperExited =>
    /\ wrapperExitCode # 0 <=> SomeResultFailed
    /\ deps = <<>> => rp.results = <<>> /\ wrapperExitCode = 0

\* C24 as amended: when runParallel has returned its result list, the
\* wrapper exits with 1 if some result has a non-zero exit code and with 0
\* otherwise (no task: no result, exit code 0); when runParallel has failed
\* instead, the wrapper exits with the exit code of that error, 2, whatever
\* results exist.
C24_ExitCodeOfParallelRun ==
  wr.pc = "exited" =>
    /\ rp.pc \in {"done", "rejected"}
    /\ rp.pc = "done" => wr.exitCode = (IF SomeResultFailed THEN 1 ELSE 0)
    /\ rp.pc = "rejected" => wr.exitCode = 2
    /\ deps = <<>> => rp.pc = "done" /\ rp.results = <<>> /\ wr.exitCode = 0

C24_Witness ==
  /\ wr.pc = "exited" /\ rp.pc = "done" /\ wr.exitCode = 1
  /\ \E k \in 1 .. Len(rp.results) : rp.results[k].exitCode = 0
  /\ \E k \in 1 .. Len(rp.results) : ~rp.results[k].skipped /\ rp.results[k].exitCode # 0

\* process.exitCode once main has settled with the error e (NoError: it returned)
exitCodeAfter(e) == IF e = NoError THEN 0 ELSE onMainRejected(e)

\* C25: a run of one task without dependencies ends the same way in both
\* modes: for the TaskResult the execution has produced, the exit code of
\* the wrapper is the one single-task mode gives and the one parallel mode
\* gives for a result list made of that result, and in parallel mode that
\* result is the task's entry of the result list.
C25_OneTaskDagAsSingleTask ==
  (wr.pc = "exited" /\ exec[1].pc = "done") =>
     /\ wr.exitCode = exitCodeAfter(mainSingleOutcome(exec[1].exitCode))
     /\ wr.exitCode = exitCodeAfter(mainParallelOutcome(<<[exitCode |-> exec[1].exitCode]>>))
     /\ opts.parallel =>
          /\ Len(rp.results) = 1
          /\ rp.results[1].exitCode = exec[1].exitCode

\* the result of parseJSONStream on a stream made of the one event e
parsedAlone(e) == parseResult(processEvent(NewParse, e))

\* the results combined: the messages joined in order, the first non-empty
\* session id, the first flavor that is not "unknown"
RECURSIVE combined(_)
combined(results) ==
  IF results = <<>> THEN parseResult(NewParse)
  ELSE LET r == Head(results)
           c == combined(Tail(results))
       IN  [ message     |-> r.message + c.message,
             sessionId   |-> IF r.sessionId # "" THEN r.sessionId ELSE c.sessionId,
             backendType |-> IF r.backendType # "unknown" THEN r.backendType
                             ELSE c.backendType ]

LinesParsedAlone == combined([i \in 1 .. Len(pj.seen) |-> parsedAlone(pj.seen[i])])

ReadAsAlone ==
  \A i \in 1 .. Len(pj.seen) : pj.onEvent[i] = detectBackend(pj.seen[i])

ErrorPending(t) == \E i \in 1 .. Len(jobs) : jobs[i] = Job("error", t)

\* C28: attaching the 'close' and 'error' listeners only after the parsing
\* of stdout loses no event: whenever the runtime emits 'error' (or 'close')
\* on the child the listeners are attached, and once the child has exited
\* runTask returns.
C28_NoChildEventMissed ==
  /\ [](\A t \in Tasks : ErrorPending(t) => exec[t].exitListen)
  /\ \A t \in Tasks : (exec[t].child = "exited") ~> (exec[t].pc = "done")

\* the child of e has exited by itself before the timeout fired and before a
\* signal or an abort arrived: it ended with a code and child.kill() never
\* reached it while it ran (a timer, signal or abort that finds the child
\* running always delivers a signal to it)
ExitedUndisturbed(e) == e.status[1] = "code" /\ e.delivered = <<>>

\* C29 (as stated): when the child has exited by itself before any timeout,
\* signal or abort, runTask returns the child's exit code, whatever arrives
\* between the exit and the cleanup.
C29_LateCancelCannotChangeCode ==
  [][\A t \in Tasks :
       Returns(t) /\ ExitedUndisturbed(exec[t])
         => exec'[t].exitCode = exec[t].status[2]]_vars

\* C29 (amended): when the child has exited by itself before any timeout,
\* signal or abort, runTask returns the child's exit code unless a timer
\* expiry, signal or abort arrived between the exit and the cleanup: a timer
\* expiry then gives 124, a signal or abort without a timer expiry 130.
C29_LateCancelChangesCode ==
  [][\A t \in Tasks :
       Returns(t) /\ ExitedUndisturbed(exec[t])
         => exec'[t].exitCode =
              IF exec[t].timedOut THEN 124
              ELSE IF exec[t].interrupted THEN 130
              ELSE exec[t].status[2]]_vars

\* a child exited by itself with code 0, the timer fired before the cleanup
\* and runTask has returned 124
C29_Witness ==
  \E t \in Tasks : /\ exec[t].pc = "done"
                   /\ exec[t].status = <<"code", 0>>
                   /\ exec[t].delivered = <<>>
                   /\ exec[t].timedOut
                   /\ exec[t].exitCode = 124

\* an OS signal that reached the wrapper was forwarded to the child of e
ForwardedTo(e) == sigCount > 0 /\ e.killed /\ lastSig \in Range(e.delivered)

\* this step is the timeout of t firing, or an external abort that runs the
\* abortHandler of t
LaterCancel(t) ==
  \/ ~exec[t].timedOut /\ exec'[t].timedOut
  \/ ~aborted /\ aborted' /\ exec[t].abortL

\* C30: when the timeout or an external abort fires on a child that is still
\* running after an OS signal was forwarded to it, terminateProcess sends it
\* SIGTERM and arms the grace timer that is to send SIGKILL.
C30_TerminatedAfterForwardedSignal ==
  [][\A t \in Tasks :
       exec[t].child = "running" /\ ForwardedTo(exec[t]) /\ LaterCancel(t)
         => /\ exec'[t].delivered = Append(exec[t].delivered, "SIGTERM")
            /\ exec'[t].killTimers = exec[t].killTimers + 1]_vars

\* the entries the Logger has handed to write() so far
handed(l) == l.written \o flatten(l.buffered)

\* the step is the call of close() that closes the Logger
IsClosing == ~lg.closed /\ lg'.closed

\* C31: while a write has reported backpressure and the drain has not come,
\* a step other than close() issues no write unless it is the drain: an entry
\* submitted in between is appended to the queue, and a write issued in such
\* a step is the one of the drain (every earlier write has completed) and
\* carries the whole queue in order.
C31_NoWriteUntilDrain ==
  [][(lg.drainPending /\ ~IsClosing) =>
       /\ lg'.submitted # lg.submitted =>
            /\ lg'.queue = Append(lg.queue, lg'.submitted[Len(lg'.submitted)])
            /\ lg'.buffered = lg.buffered
       /\ handed(lg') # handed(lg) =>
            /\ lg'.written = handed(lg)
            /\ lg'.buffered = <<lg.queue>>]_vars

\* entries were queued during backpressure and the drain's flush has handed
\* all of them to the sink, the Logger still open
C31_Witness ==
  /\ ~lg.closed /\ lg.heldBack
  /\ lg.queue = <<>>
  /\ Len(lg.submitted) >= 3
  /\ handed(lg) = lg.submitted

\* C32: at most one write of the Logger is outstanding at any time: the
\* pending-write count never exceeds 1.
C32_OneWriteOutstanding == lg.pendingWrites <= 1

\* C33: the queue of the Logger never holds more than QUEUE_SIZE entries.
C33_QueueWithinCapacity == Len(lg.queue) <= QUEUE_SIZE

\* C34: when runParallel has returned (no abort, no error) its result list
\* holds exactly one result for every input task, run or skipped, and the
\* results of an earlier layer precede those of a later layer.
C34_OneResultPerTaskInLayerOrder ==
  (rp.pc = "done" /\ ~aborted) =>
    /\ Len(rp.results) = NumTasks
    /\ \A t \in Tasks : Cardinality(ResultsOf(t)) = 1
    /\ \A k1, k2 \in 1 .. Len(rp.results) :
         LayerOf(rp.results[k1].taskId) < LayerOf(rp.results[k2].taskId) => k1 < k2

\* a run of two or more layers has returned with results of tasks that ran
\* and of a task that was skipped
C34_Witness ==
  /\ rp.pc = "done" /\ ~aborted
  /\ Len(rp.layers) >= 2
  /\ \E k \in 1 .. Len(rp.results) : rp.results[k].skipped
  /\ \E k \in 1 .. Len(rp.results) : ~rp.results[k].skipped /\ LayerOf(rp.results[k].taskId) >= 2

\* the layers topologicalSort has returned (none when it threw) and the
\* index of the layer that holds task t
Layers == IF sorted.called /\ sorted.result.ok THEN sorted.result.layers ELSE <<>>
LayerIndex(t) == CHOOSE i \in 1 .. Len(Layers) : t \in Range(Layers[i])

\* C35: in the layers topologicalSort returns, every dependency of a task of
\* layer i lies in a layer with a lower index, so no task depends on a task
\* of its own layer.
C35_DependenciesInEarlierLayers ==
  \A i \in 1 .. Len(Layers) : \A t \in Range(Layers[i]) :
    \A dep \in Range(deps[t]) :
      /\ dep \notin Range(Layers[i])
      /\ \E j \in 1 .. i - 1 : dep \in Range(Layers[j])

\* three layers or more, one of them with two tasks, and a task with two
\* dependencies in different layers
C35_Witness ==
  /\ Len(Layers) >= 3
  /\ \E i \in 1 .. Len(Layers) : Len(Layers[i]) >= 2
  /\ \E t \in LongList : \E a, b \in Range(deps[t]) : LayerIndex(a) < LayerIndex(b)

\* the place of task t in the returned layers read one after the other, and
\* the place of the last of the dependencies of t to be placed (0: none)
PlaceOf(t) == CHOOSE k \in 1 .. Len(flatten(Layers)) : flatten(Layers)[k] = t
LastDependencyPlace(t) ==
  IF deps[t] = <<>> THEN 0
  ELSE CHOOSE m \in {PlaceOf(dep) : dep \in Range(deps[t])} :
         \A dep \in Range(deps[t]) : PlaceOf(dep) <= m

\* C36 (as stated): within every layer topologicalSort returns, the tasks
\* appear in the order of the input task list.
C36_LayersInInputOrder ==
  \A i \in 1 .. Len(Layers) : \A k1, k2 \in 1 .. Len(Layers[i]) :
    k1 < k2 => Layers[i][k1] < Layers[i][k2]

\* C36 (amended): the tasks of the first layer appear in the order of the
\* input list, and within any layer a task precedes another exactly when the
\* last of its dependencies to be placed was placed before the other's, or
\* at the same place with the task first in the input list.
C36_LayersInReadyOrder ==
  /\ Len(Layers) >= 1 =>
       \A k1, k2 \in 1 .. Len(Layers[1]) : k1 < k2 => Layers[1][k1] < Layers[1][k2]
  /\ \A i \in 1 .. Len(Layers) : \A k1, k2 \in 1 .. Len(Layers[i]) :
       LET t1 == Layers[i][k1]
           t2 == Layers[i][k2]
       IN  k1 < k2 <=>
             \/ LastDependencyPlace(t1) < LastDependencyPlace(t2)
             \/ LastDependencyPlace(t1) = LastDependencyPlace(t2) /\ t1 < t2

\* a later layer holds two tasks against the order of the input list
C36_Witness ==
  \E i \in 2 .. Len(Layers) : \E k1, k2 \in 1 .. Len(Layers[i]) :
    k1 < k2 /\ Layers[i][k1] > Layers[i][k2]

\* C37: the bytes the stderr text of a TaskResult is decoded from are the
\* last min(total, STDERR_BUFFER_SIZE) bytes the child wrote to stderr,
\* whatever the sizes of the chunks.
C37_TailIsLastBytesWritten ==
  se.returned => se.tail = sliceLast(se.written, STDERR_BUFFER_SIZE)

\* the ERROR and WARN entries submitted so far, in submission order
ErrorsSubmitted == SelectSeq(lg.submitted, LAMBDA e : e.level \in {"error", "warn"})

\* C38: the retained list never exceeds 2 x MAX_ERROR_ENTRIES entries, it
\* consists of the most recent ERROR/WARN entries in submission order (so no
\* INFO/DEBUG entry is in it), and it holds at least the most recent
\* min(n, MAX_ERROR_ENTRIES) of the n submitted so far.
C38_RetainedErrors ==
  /\ Len(lg.errorEntries) <= 2 * MAX_ERROR_ENTRIES
  /\ lg.errorEntries = lastN(ErrorsSubmitted, Len(lg.errorEntries))
  /\ Len(ErrorsSubmitted) <= MAX_ERROR_ENTRIES => lg.errorEntries = ErrorsSubmitted
  /\ Len(ErrorsSubmitted) > MAX_ERROR_ENTRIES => Len(lg.errorEntries) >= MAX_ERROR_ENTRIES

\* the list has been trimmed and has grown again, with an INFO entry
\* submitted in between
C38_Witness ==
  /\ Len(ErrorsSubmitted) > 2 * MAX_ERROR_ENTRIES + 1
  /\ Len(lg.errorEntries) = MAX_ERROR_ENTRIES + 1
  /\ \E k \in 1 .. Len(lg.submitted) : lg.submitted[k].level = "info" /\ lg.submitted[k].id > 1

\* C39: runParallel writes no field of a caller's task object, also for a
\* task that names an agent preset: no step changes a task object.
C39_TaskSpecsUnchanged == [][tk' = tk]_vars

\* C40: a Logger ends its sink at most once, and once the promise of close()
\* has resolved, on the drained path or on the timeout path, the polling of
\* the pending writes has stopped (no checkPending timer is armed).
C40_SinkEndedOnce ==
  /\ lg.ends <= 1
  /\ lg.closing = "resolved" => ~lg.pollTimer
====
